---- MODULE Spec2Model ----
(***************************************************************************)
(* RVCinemaView server: the bounded thumbnail cache (LRUCache), the        *)
(* thumbnail service (ThumbnailService with its in-flight set) and the     *)
(* library scanner (Scanner with its scanning flag).                       *)
(*                                                                         *)
(* The specifications share the variables:                                 *)
(*   SpecCache  - one LRUCache driven by Get / Set / Delete / Clear        *)
(*   SpecThumb  - goroutines calling GetThumbnail and ProcessMediaItem     *)
(*   SpecBurst  - goroutines each calling ProcessMediaItem once, same ID   *)
(*   SpecScan   - goroutines calling ScanPath                              *)
(*   SpecLib    - one goroutine rescanning while the library changes       *)
(*   SpecWalk   - one goroutine scanning while store and disk fail         *)
(*   SpecSweep  - the background sweep, a handler and the shutdown         *)
(*   SpecSeek   - Generate for a video of any duration                     *)
(*   SpecBacklog - the sweep alone over a backlog, any page size           *)
(*   SpecServe  - rescans after deletions, and thumbnail requests          *)
(*   SpecStartup - main's startup task racing with the scan endpoint       *)
(***************************************************************************)
EXTENDS Integers, Sequences, FiniteSets, TLC

VARIABLES
    cache,      \* the LRUCache struct: capacity, size, maxSize, items, order
    recency,    \* ghost: held keys by their latest successful Get/Set, oldest first
    lastOp,     \* ghost: the cache call made by the latest step
    processing, \* ThumbnailService.processing: the in-flight set
    thumbs,     \* media IDs whose thumbnail file exists in the output directory
    tools,      \* which of ffprobe / ffmpeg resolve on the execution path
    media,      \* the media_items table: media ID -> row
    req,        \* per goroutine: the ThumbnailService call it is executing
    scanning,   \* Scanner.scanning
    fs,         \* the filesystem: existing path -> [isDir, size, mtime]
    folders,    \* the folders table: folder ID -> row
    scan,       \* per goroutine: the ScanPath call it is executing
    faults,     \* whether the store and the disk fail at times in this run
    synced,     \* ghost: an error-free scan has completed and no file has
                \* been added, removed or rewritten since
    sweep,      \* the background task of StartBackgroundProcessing
    ctxDone     \* the cancellation signal has fired

cacheVars == <<cache, recency, lastOp>>

sweepVars == <<sweep, ctxDone>>

thumbVars == <<processing, thumbs, tools, media, req, sweep, ctxDone>>

scanVars == <<scanning, fs, folders, scan, faults, synced>>

vars == <<cache, recency, lastOp, processing, thumbs, tools, media, req,
          scanning, fs, folders, scan, faults, synced, sweep, ctxDone>>

----------------------------------------------------------------------------
(* Bounds of the model *)

MaxLen == 2
MaxCapacity == 2
MaxBudget == 3

MaxCalls == 2
MaxDuration == 120
MaxScans == 2
BatchSize == 2

Keys == {"a", "b", "c"}
Bytes == {1, 2}

\* byte slices handed to the cache: n equal bytes, 0 <= n <= MaxLen
DataValues == {[i \in 1..n |-> b] : n \in 0..MaxLen, b \in Bytes}

----------------------------------------------------------------------------
(* LRUCache: container/list is a sequence whose head is the front          *)

\* position of key in the list; items[key] points at that element
ElemOf(c, key) == CHOOSE i \in 1..Len(c.order) : c.order[i].key = key

MoveToFront(ord, i) ==
    <<ord[i]>> \o SubSeq(ord, 1, i - 1) \o SubSeq(ord, i + 1, Len(ord))

ListRemove(ord, i) == SubSeq(ord, 1, i - 1) \o SubSeq(ord, i + 1, Len(ord))

NewLRUCache(capacity, maxSizeBytes) ==
    [capacity |-> capacity, size |-> 0, maxSize |-> maxSizeBytes,
     items |-> {}, order |-> <<>>, mu |-> "free"]

removeElement(c, i) ==
    [c EXCEPT !.order = ListRemove(c.order, i),
              !.items = c.items \ {c.order[i].key},
              !.size = c.size - Len(c.order[i].data)]

evictFront(c) ==
    IF Len(c.order) > 0 THEN removeElement(c, 1) ELSE c

evictOldest(c) ==
    IF Len(c.order) > 0 THEN removeElement(c, Len(c.order)) ELSE c

NeedsEvictNoCount(c, dataSize) ==
    Len(c.order) > c.capacity
        \/ (c.size + dataSize > c.maxSize /\ Len(c.order) > 0)

\* the condition of Set's eviction loop
NeedsEvict(c, dataSize) ==
    Len(c.order) >= c.capacity
        \/ (c.size + dataSize > c.maxSize /\ Len(c.order) > 0)

\* the cache as the eviction loop leaves it: where its condition is false,
\* or where a further evictOldest changes nothing and the loop repeats
RECURSIVE EvictLoop(_, _)
EvictLoop(c, dataSize) ==
    IF NeedsEvict(c, dataSize) /\ evictOldest(c) # c
    THEN EvictLoop(evictOldest(c), dataSize)
    ELSE c

\* the eviction loop never exits: its condition holds with nothing to evict
Spins(c, dataSize) == NeedsEvict(EvictLoop(c, dataSize), dataSize)

LRUGetNoPromote(c, key) ==
    IF key \in c.items
    THEN [cache |-> c, data |-> c.order[ElemOf(c, key)].data, ok |-> TRUE]
    ELSE [cache |-> c, data |-> <<>>, ok |-> FALSE]

LRUGet(c, key) ==
    IF key \in c.items
    THEN [cache |-> [c EXCEPT !.order = MoveToFront(c.order, ElemOf(c, key))],
          data |-> c.order[ElemOf(c, key)].data, ok |-> TRUE]
    ELSE [cache |-> c, data |-> <<>>, ok |-> FALSE]

LRUUpdateInPlace(c, key, data) ==
    LET i == ElemOf(c, key)
    IN  [c EXCEPT !.size = c.size - Len(c.order[i].data) + Len(data),
                  !.order[i].data = data]

LRUUpdate(c, key, data) ==
    LET i == ElemOf(c, key)
        upd == [c EXCEPT !.size = c.size - Len(c.order[i].data) + Len(data),
                         !.order[i].data = data]
    IN  [upd EXCEPT !.order = MoveToFront(upd.order, i)]

\* a loop that never exits keeps c.mu: the deferred Unlock is never run
LRUInsert(c, key, data) ==
    LET ev == EvictLoop(c, Len(data))
    IN  IF Spins(c, Len(data)) THEN [ev EXCEPT !.mu = "held"]
        ELSE [ev EXCEPT !.order = <<[key |-> key, data |-> data]>> \o ev.order,
                        !.items = ev.items \cup {key},
                        !.size = ev.size + Len(data)]

LRUSetNoReject(c, key, data) ==
    IF key \in c.items THEN LRUUpdate(c, key, data) ELSE LRUInsert(c, key, data)

LRUSet(c, key, data) ==
    IF Len(data) > c.maxSize THEN c
    ELSE IF key \in c.items THEN LRUUpdate(c, key, data)
    ELSE LRUInsert(c, key, data)

LRUDelete(c, key) ==
    IF key \in c.items THEN removeElement(c, ElemOf(c, key)) ELSE c

LRUClearKeepSize(c) == [c EXCEPT !.items = {}, !.order = <<>>]

LRUClear(c) == [c EXCEPT !.items = {}, !.order = <<>>, !.size = 0]

LRULen(c) == Len(c.order)

LRUSize(c) == c.size

----------------------------------------------------------------------------
(* Ghost bookkeeping of accesses, kept apart from the list the code keeps  *)

RECURSIVE SeqWithout(_, _)
SeqWithout(s, ks) ==
    IF s = <<>> THEN <<>>
    ELSE IF Head(s).key \in ks THEN SeqWithout(Tail(s), ks)
    ELSE <<Head(s)>> \o SeqWithout(Tail(s), ks)

\* key was just read or written successfully through `via`; gone keys are dropped
Touched(rec, key, via, held) ==
    SeqWithout(rec, {key} \cup ({rec[i].key : i \in 1..Len(rec)} \ held))
        \o <<[key |-> key, via |-> via]>>

Dropped(rec, held) ==
    SeqWithout(rec, {rec[i].key : i \in 1..Len(rec)} \ held)

NoOp ==
    [op |-> "none", key |-> "", data |-> <<>>, len |-> 0, ok |-> FALSE,
     had |-> FALSE, evicted |-> {}]

----------------------------------------------------------------------------
(* SpecCache: the cache's public calls, each under c.mu                    *)

\* c.mu.Lock() returns: no call holds the mutex
Lock == cache.mu = "free"

Get(key) ==
    LET r == LRUGet(cache, key) IN
    /\ Lock
    /\ cache' = r.cache
    /\ recency' = IF r.ok THEN Touched(recency, key, "get", r.cache.items)
                  ELSE recency
    /\ lastOp' = [op |-> "Get", key |-> key, data |-> r.data, len |-> 0,
                  ok |-> r.ok, had |-> r.ok, evicted |-> {}]

Set(key, data) ==
    LET c2 == LRUSet(cache, key, data) IN
    /\ Lock
    /\ cache' = c2
    /\ recency' = IF Len(data) > cache.maxSize THEN recency
                  ELSE IF key \in c2.items
                  THEN Touched(recency, key, "set", c2.items)
                  ELSE Dropped(recency, c2.items)
    /\ lastOp' = [op |-> "Set", key |-> key, data |-> data,
                  len |-> Len(data), ok |-> Len(data) <= cache.maxSize,
                  had |-> key \in cache.items,
                  evicted |-> cache.items \ c2.items]

Delete(key) ==
    LET c2 == LRUDelete(cache, key) IN
    /\ Lock
    /\ cache' = c2
    /\ recency' = Dropped(recency, c2.items)
    /\ lastOp' = [op |-> "Delete", key |-> key, data |-> <<>>, len |-> 0,
                  ok |-> key \in cache.items, had |-> key \in cache.items,
                  evicted |-> {}]

Clear ==
    /\ Lock
    /\ cache' = LRUClear(cache)
    /\ recency' = <<>>
    /\ lastOp' = [op |-> "Clear", key |-> "", data |-> <<>>, len |-> 0,
                  ok |-> TRUE, had |-> FALSE, evicted |-> {}]

----------------------------------------------------------------------------
(* Paths, names and identifiers                                            *)

Nil == <<>>

Join(dir, name) == dir \o "/" \o name

HasPrefixNever(str, prefix) == FALSE

HasPrefix(str, prefix) ==
    Len(str) >= Len(prefix) /\ SubSeq(str, 1, Len(prefix)) = prefix

\* filepath.Ext: the suffix that starts at the last dot, "" without a dot
Ext(name) ==
    LET dots == {i \in 1..Len(name) : SubSeq(name, i, i) = "."}
    IN  IF dots = {} THEN ""
        ELSE SubSeq(name, CHOOSE i \in dots : \A j \in dots : j <= i, Len(name))

TrimSuffix(str, suffix) ==
    IF suffix # "" /\ Len(str) >= Len(suffix)
          /\ SubSeq(str, Len(str) - Len(suffix) + 1, Len(str)) = suffix
    THEN SubSeq(str, 1, Len(str) - Len(suffix))
    ELSE str

\* strings.ToLower on the extensions that occur
ToLower(str) ==
    CASE str = ".MP4" -> ".mp4"
      [] str = ".MKV" -> ".mkv"
      [] OTHER -> str

supportedVideoExtensions ==
    {".mp4", ".m4v", ".mkv", ".avi", ".webm", ".mov", ".wmv", ".flv"}

IsSupportedVideo(filename) == ToLower(Ext(filename)) \in supportedVideoExtensions

\* hex of the first 8 bytes of sha256(path): injective on the paths that occur
generateID(path) == "id:" \o path

----------------------------------------------------------------------------
(* ThumbnailGenerator, MetadataExtractor and the media_items rows          *)

LibraryRoot == "/lib"

ThumbPaths == {Join(LibraryRoot, "t.MP4"), Join(Join(LibraryRoot, "Movies"), "a.mkv")}

ThumbIDs == {generateID(p) : p \in ThumbPaths}

\* durations ffprobe reports (whole seconds)
Durations == {30}

\* the JPEG ffmpeg writes for a media ID
Jpeg(id) == IF id = generateID(Join(LibraryRoot, "t.MP4")) THEN <<1>> ELSE <<2, 2>>

\* a row as the scanner inserts it: no enrichment yet
NewMediaRow(path, folderID, title, size, mtime) ==
    [id |-> generateID(path), folder_id |-> folderID, title |-> title,
     path |-> path, size |-> size, mtime |-> mtime, duration |-> Nil,
     width |-> Nil, height |-> Nil, video_codec |-> Nil, audio_codec |-> Nil]

\* what ffprobe's output parses to for a video of duration d
Probed(d) ==
    [duration |-> d, width |-> 2, height |-> 1,
     video_codec |-> "h264", audio_codec |-> "aac"]

\* UPDATE media_items SET duration, width, height, video_codec, audio_codec
\* WHERE id = ?: no row with that id, no change
UpdateMediaMetadata(tbl, id, meta) ==
    [i \in DOMAIN tbl |->
        IF i = id
        THEN [tbl[i] EXCEPT !.duration = <<meta.duration>>,
                            !.width = <<meta.width>>,
                            !.height = <<meta.height>>,
                            !.video_codec = <<meta.video_codec>>,
                            !.audio_codec = <<meta.audio_codec>>]
        ELSE tbl[i]]

Procs == {"g1", "g2", "g3"}

\* the goroutines that serve requests in SpecThumb
Handlers == {"g1", "g2"}

\* invoked / failed (ghost): this call has called Generate / Generate failed
\* wrote (ghost): this call has written metadata to the store
\* seek (ghost): the -ss argument Generate has computed in this call
\* probed, hint (ghost): the duration Extract returned in this call; the
\* duration this call handed to Generate
\* status, image: the HTTP status and the image bytes the thumbnail handler
\* has written for this call (0: nothing written)
IdleReq == [pc |-> "idle", op |-> "none", id |-> "", dur |-> Nil,
            ret |-> "none", calls |-> 0, invoked |-> FALSE, failed |-> FALSE,
            wrote |-> FALSE, seek |-> Nil, probed |-> Nil, hint |-> Nil,
            status |-> 0, image |-> <<>>,
            trail |-> <<>>]

\* trail (ghost): the stages this call has gone through, in order
Visit(r, stage) == [r EXCEPT !.trail = Append(r.trail, stage)]

\* ProcessMediaItem's entry under processingMu: check, then register
pmEnterDeferFirst(inflight, id) ==
    IF id \in inflight
    THEN [registered |-> FALSE, processing |-> inflight \ {id}]
    ELSE [registered |-> TRUE, processing |-> inflight \cup {id}]

pmEnterNoCheck(inflight, id) ==
    [registered |-> TRUE, processing |-> inflight \cup {id}]

pmEnter(inflight, id) ==
    IF id \in inflight
    THEN [registered |-> FALSE, processing |-> inflight]
    ELSE [registered |-> TRUE, processing |-> inflight \cup {id}]

\* the deferred removal
pmExit(inflight, id) == inflight \ {id}

\* the results that carry a non-nil error
Errors == {"err", "err_store", "err_unavailable"}

\* Handler.GetThumbnail's reply to what the service returned: 404 when err is
\* not nil, otherwise 200 and w.Write(data), whatever data is
thumbnailReply(id, ret) ==
    IF ret \in Errors THEN [status |-> 404, image |-> <<>>]
    ELSE [status |-> 200, image |-> IF ret = "data" THEN Jpeg(id) ELSE <<>>]

\* the call returns: the goroutine is free for its next call. A GetThumbnail
\* call returns to the HTTP handler, which writes the reply
Return(r, ret) ==
    IF r.op = "GetThumbnail"
    THEN [r EXCEPT !.pc = "idle", !.ret = ret,
                   !.status = thumbnailReply(r.id, ret).status,
                   !.image = thumbnailReply(r.id, ret).image]
    ELSE [r EXCEPT !.pc = "idle", !.ret = ret]

\* where a Generate call returns to, by caller and outcome
AfterGenerate(r, ok) ==
    IF r.op = "GetThumbnail"
    THEN (IF ok THEN [r EXCEPT !.pc = "gt_read"] ELSE Return(r, "err"))
    ELSE [r EXCEPT !.pc = "pm_exit"]

(* GetThumbnail *)

CallGetThumbnail(t, id) ==
    /\ req[t].pc = "idle" /\ req[t].calls < MaxCalls
    /\ req' = [req EXCEPT ![t] = [pc |-> "gt_cache", op |-> "GetThumbnail",
                                  id |-> id, dur |-> Nil, ret |-> "none",
                                  calls |-> req[t].calls + 1,
                                  invoked |-> FALSE, failed |-> FALSE,
                                  wrote |-> FALSE, seek |-> Nil,
                                  probed |-> Nil, hint |-> Nil,
                                  status |-> 0, image |-> <<>>,
                                  trail |-> <<>>]]
    /\ UNCHANGED <<cacheVars, processing, thumbs, tools, media>>

GtCacheNoShortcut(t) ==
    /\ req[t].pc = "gt_cache"
    /\ Get(req[t].id)
    /\ req' = [req EXCEPT ![t] = [Visit(req[t], "cache") EXCEPT !.pc = "gt_disk"]]
    /\ UNCHANGED <<processing, thumbs, tools, media>>

\* s.cache.Get(mediaID)
GtCache(t) ==
    /\ req[t].pc = "gt_cache"
    /\ Get(req[t].id)
    /\ req' = [req EXCEPT ![t] =
                  IF req[t].id \in cache.items
                  THEN Return(Visit(req[t], "cache"), "data")
                  ELSE [Visit(req[t], "cache") EXCEPT !.pc = "gt_disk"]]
    /\ UNCHANGED <<processing, thumbs, tools, media>>

\* os.ReadFile(thumbnailPath), and s.cache.Set on success
GtDisk(t) ==
    /\ req[t].pc = "gt_disk"
    /\ IF req[t].id \in thumbs
       THEN /\ Set(req[t].id, Jpeg(req[t].id))
            /\ req' = [req EXCEPT ![t] = Return(Visit(req[t], "disk"), "data")]
       ELSE /\ req' = [req EXCEPT ![t] =
                          [Visit(req[t], "disk") EXCEPT !.pc = "gt_lookup"]]
            /\ UNCHANGED cacheVars
    /\ UNCHANGED <<processing, thumbs, tools, media>>

GtLookupAvailabilityFirst(t) ==
    /\ req[t].pc = "gt_lookup"
    /\ \E dbOK \in BOOLEAN :
          req' = [req EXCEPT ![t] =
              LET r == Visit(req[t], "store") IN
              IF ~tools.ffmpeg THEN Return(r, "err_unavailable")
              ELSE IF ~dbOK THEN Return(r, "err_store")
              ELSE IF r.id \notin DOMAIN media THEN Return(r, "nil")
              ELSE [r EXCEPT !.pc = "gen_stat", !.dur = media[r.id].duration]]
    /\ UNCHANGED <<cacheVars, processing, thumbs, tools, media>>

\* s.storage.GetMediaItem, then s.generator.IsAvailable
GtLookup(t) ==
    /\ req[t].pc = "gt_lookup"
    /\ \E dbOK \in BOOLEAN :
          req' = [req EXCEPT ![t] =
              LET r == Visit(req[t], "store") IN
              IF ~dbOK THEN Return(r, "err_store")
              ELSE IF r.id \notin DOMAIN media THEN Return(r, "nil")
              ELSE IF ~tools.ffmpeg THEN Return(r, "err_unavailable")
              ELSE [r EXCEPT !.pc = "gen_stat", !.dur = media[r.id].duration]]
    /\ UNCHANGED <<cacheVars, processing, thumbs, tools, media>>

\* os.ReadFile of the generated file, then s.cache.Set
GtRead(t) ==
    /\ req[t].pc = "gt_read"
    /\ IF req[t].id \in thumbs
       THEN /\ Set(req[t].id, Jpeg(req[t].id))
            /\ req' = [req EXCEPT ![t] = Return(req[t], "data")]
       ELSE /\ req' = [req EXCEPT ![t] = Return(req[t], "err")]
            /\ UNCHANGED cacheVars
    /\ UNCHANGED <<processing, thumbs, tools, media>>

(* HasThumbnail *)

\* s.cache.Get(mediaID), then s.generator.Exists(mediaID): the store is not
\* consulted
HasThumbnail(t, id) ==
    /\ req[t].pc = "idle" /\ req[t].calls < MaxCalls
    /\ Get(id)
    /\ req' = [req EXCEPT ![t] =
                  [IdleReq EXCEPT !.op = "HasThumbnail", !.id = id,
                                  !.calls = req[t].calls + 1,
                                  !.ret = IF id \in cache.items \/ id \in thumbs
                                          THEN "true" ELSE "false"]]
    /\ UNCHANGED <<processing, thumbs, tools, media>>

(* ThumbnailGenerator.Generate, called from either path *)

\* the duration both callers pass: *media.Duration, or 0 when it is nil
DurationHint(dur) == IF dur = Nil THEN 0 ELSE dur[1]

\* the timestamp handed to ffmpeg as -ss, in whole seconds (int64 division)
SeekOffset(duration) ==
    LET tenPercent == duration \div 10
        timestamp == IF tenPercent > 0 /\ tenPercent < 5 THEN tenPercent ELSE 5
    IN  IF duration > 0
        THEN (IF timestamp > duration THEN duration \div 2 ELSE timestamp)
        ELSE 5

GenStatAlwaysRun(t) ==
    /\ req[t].pc = "gen_stat"
    /\ req' = [req EXCEPT ![t] =
                  LET r == Visit([req[t] EXCEPT
                                     !.invoked = TRUE,
                                     !.hint = <<DurationHint(req[t].dur)>>],
                                 "gen")
                  IN  [r EXCEPT !.pc = "gen_run",
                                !.seek = <<SeekOffset(DurationHint(r.dur))>>]]
    /\ UNCHANGED <<cacheVars, processing, thumbs, tools, media>>

\* entry: the output file is stat'ed; if it is there no subprocess is
\* started, else the timestamp and the ffmpeg arguments are computed
GenStat(t) ==
    /\ req[t].pc = "gen_stat"
    /\ req' = [req EXCEPT ![t] =
                  LET r == Visit([req[t] EXCEPT
                                     !.invoked = TRUE,
                                     !.hint = <<DurationHint(req[t].dur)>>],
                                 "gen")
                  IN
                  IF r.id \in thumbs THEN AfterGenerate(r, TRUE)
                  ELSE [r EXCEPT !.pc = "gen_run",
                                 !.seek = <<SeekOffset(DurationHint(r.dur))>>]]
    /\ UNCHANGED <<cacheVars, processing, thumbs, tools, media>>

\* the ffmpeg subprocess ends: it wrote the file, exited non-zero, or exited
\* zero without an output file
GenRun(t) ==
    /\ req[t].pc = "gen_run"
    /\ \E outcome \in {"ok", "exit_nonzero", "no_output"} :
          /\ thumbs' = IF outcome = "ok" THEN thumbs \cup {req[t].id} ELSE thumbs
          /\ req' = [req EXCEPT ![t] =
                        AfterGenerate([req[t] EXCEPT !.failed = outcome # "ok"],
                                      outcome = "ok")]
    /\ UNCHANGED <<cacheVars, processing, tools, media>>

(* ProcessMediaItem *)

\* the caller passes a copy of the row it read from the store
CallProcessMediaItem(t, id, limit) ==
    /\ req[t].pc = "idle" /\ req[t].calls < limit
    /\ id \in DOMAIN media
    /\ req' = [req EXCEPT ![t] = [pc |-> "pm_enter", op |-> "ProcessMediaItem",
                                  id |-> id, dur |-> media[id].duration,
                                  ret |-> "none", calls |-> req[t].calls + 1,
                                  invoked |-> FALSE, failed |-> FALSE,
                                  wrote |-> FALSE, seek |-> Nil,
                                  probed |-> Nil, hint |-> Nil,
                                  status |-> 0, image |-> <<>>,
                                  trail |-> <<>>]]
    /\ UNCHANGED <<cacheVars, processing, thumbs, tools, media>>

PmEnter(t) ==
    /\ req[t].pc = "pm_enter"
    /\ LET r == pmEnter(processing, req[t].id) IN
          /\ processing' = r.processing
          /\ req' = [req EXCEPT ![t] =
                        IF r.registered THEN [req[t] EXCEPT !.pc = "pm_meta"]
                        ELSE Return(req[t], "skip")]
    /\ UNCHANGED <<cacheVars, thumbs, tools, media>>

PmMetaNoCopyUpdate(t) ==
    /\ req[t].pc = "pm_meta"
    /\ IF tools.ffprobe /\ req[t].dur = Nil
       THEN \E extracted \in BOOLEAN, d \in Durations,
               dbOK \in IF faults THEN BOOLEAN ELSE {TRUE} :
               /\ media' = IF extracted /\ dbOK
                           THEN UpdateMediaMetadata(media, req[t].id, Probed(d))
                           ELSE media
               /\ req' = [req EXCEPT ![t].pc = "pm_thumb",
                                     ![t].wrote = (extracted /\ dbOK),
                                     ![t].probed = IF extracted THEN <<d>>
                                                   ELSE Nil,
                                     ![t].trail = Append(req[t].trail,
                                                         "extract")]
       ELSE /\ req' = [req EXCEPT ![t].pc = "pm_thumb"]
            /\ UNCHANGED media
    /\ UNCHANGED <<cacheVars, processing, thumbs, tools>>

\* metadata: Extract, UpdateMediaMetadata, media.Duration = &meta.Duration
PmMeta(t) ==
    /\ req[t].pc = "pm_meta"
    /\ IF tools.ffprobe /\ req[t].dur = Nil
       THEN \E extracted \in BOOLEAN, d \in Durations,
               dbOK \in IF faults THEN BOOLEAN ELSE {TRUE} :
               /\ media' = IF extracted /\ dbOK
                           THEN UpdateMediaMetadata(media, req[t].id, Probed(d))
                           ELSE media
               /\ req' = [req EXCEPT ![t].pc = "pm_thumb",
                                     ![t].dur = IF extracted THEN <<d>> ELSE Nil,
                                     ![t].wrote = (extracted /\ dbOK),
                                     ![t].probed = IF extracted THEN <<d>>
                                                   ELSE Nil,
                                     ![t].trail = Append(req[t].trail,
                                                         "extract")]
       ELSE /\ req' = [req EXCEPT ![t].pc = "pm_thumb"]
            /\ UNCHANGED media
    /\ UNCHANGED <<cacheVars, processing, thumbs, tools>>

PmThumbNoAvailabilityCheck(t) ==
    /\ req[t].pc = "pm_thumb"
    /\ req' = [req EXCEPT ![t].pc =
                  IF req[t].id \notin thumbs THEN "gen_stat" ELSE "pm_exit"]
    /\ UNCHANGED <<cacheVars, processing, thumbs, tools, media>>

\* s.generator.IsAvailable() && !s.generator.Exists(media.ID)
PmThumb(t) ==
    /\ req[t].pc = "pm_thumb"
    /\ req' = [req EXCEPT ![t].pc =
                  IF tools.ffmpeg /\ req[t].id \notin thumbs THEN "gen_stat"
                  ELSE "pm_exit"]
    /\ UNCHANGED <<cacheVars, processing, thumbs, tools, media>>

PmExit(t) ==
    /\ req[t].pc = "pm_exit"
    /\ processing' = pmExit(processing, req[t].id)
    /\ req' = [req EXCEPT ![t] = Return(req[t], "nil")]
    /\ UNCHANGED <<cacheVars, thumbs, tools, media>>

ThumbStep(t) ==
    \/ GtCache(t)
    \/ GtDisk(t)
    \/ GtLookup(t)
    \/ GtRead(t)
    \/ GenStat(t)
    \/ GenRun(t)
    \/ PmEnter(t)
    \/ PmMeta(t)
    \/ PmThumb(t)
    \/ PmExit(t)

----------------------------------------------------------------------------
(* StartBackgroundProcessing: the background sweep                         *)

\* the goroutine StartBackgroundProcessing starts
Sweeper == "g3"

\* items: what is left of the current page, the item in hand first.
\* result, after (ghost): how the task ended; the ProcessMediaItem calls it
\* started with the cancellation signal already fired.
\* unserved (ghost): the IDs whose call by this task has returned after a
\* failed or skipped extraction or generation.
\* batch: the batchSize the task was started with.
IdleSweep ==
    [pc |-> "off", items |-> <<>>, result |-> "", after |-> 0,
     unserved |-> {}, batch |-> 0]

\* the returned ProcessMediaItem call r left the item without metadata or
\* without thumbnail: the tool failed, or it is unavailable and was skipped
Unserved(r) ==
    /\ r.op = "ProcessMediaItem" /\ r.pc = "idle" /\ r.ret = "nil"
    /\ \/ r.dur = Nil
       \/ r.failed
       \/ (~tools.ffmpeg /\ r.id \notin thumbs)

\* the sequences over the set ids in which no ID occurs twice
RECURSIVE Orders(_)
Orders(ids) ==
    IF ids = {} THEN {<<>>}
    ELSE UNION {{<<i>> \o rest : rest \in Orders(ids \ {i})} : i \in ids}

\* SELECT ... FROM media_items WHERE duration IS NULL LIMIT ?: the possible
\* results (no ORDER BY: any limit rows, in any order)
GetMediaItemsWithoutMetadata(tbl, limit) ==
    LET todo == {i \in DOMAIN tbl : tbl[i].duration = Nil}
        n == IF Cardinality(todo) < limit THEN Cardinality(todo) ELSE limit
    IN  UNION {Orders(ids) : ids \in {q \in SUBSET todo : Cardinality(q) = n}}

\* the goroutine is launched
StartBackgroundProcessing(batchSize) ==
    /\ sweep.pc = "off"
    /\ sweep' = [sweep EXCEPT !.pc = "sw_check", !.batch = batchSize]
    /\ UNCHANGED <<cacheVars, processing, thumbs, tools, media, req, ctxDone>>

\* top of the outer loop: select on ctx.Done() with a default
SwCheck ==
    /\ sweep.pc = "sw_check"
    /\ sweep' = IF ctxDone
                THEN [sweep EXCEPT !.pc = "done", !.result = "cancelled"]
                ELSE [sweep EXCEPT !.pc = "sw_fetch"]
    /\ UNCHANGED <<cacheVars, processing, thumbs, tools, media, req, ctxDone>>

\* the page is fetched; an error or an empty page ends the task
SwFetch ==
    /\ sweep.pc = "sw_fetch"
    /\ \E dbOK \in IF faults THEN BOOLEAN ELSE {TRUE},
          page \in GetMediaItemsWithoutMetadata(media, sweep.batch) :
          sweep' = IF ~dbOK
                   THEN [sweep EXCEPT !.pc = "done", !.result = "failed"]
                   ELSE IF page = <<>>
                   THEN [sweep EXCEPT !.pc = "done", !.result = "completed"]
                   ELSE [sweep EXCEPT !.pc = "sw_item",
                            !.items = [k \in 1..Len(page) |->
                                          [id |-> page[k],
                                           dur |-> media[page[k]].duration]]]
    /\ UNCHANGED <<cacheVars, processing, thumbs, tools, media, req, ctxDone>>

\* top of the inner loop: the range is exhausted, or select on ctx.Done()
\* with a default
SwItemNoCheck ==
    /\ sweep.pc = "sw_item"
    /\ sweep' = IF sweep.items = <<>>
                THEN [sweep EXCEPT !.pc = "sw_check"]
                ELSE [sweep EXCEPT !.pc = "sw_call"]
    /\ UNCHANGED <<cacheVars, processing, thumbs, tools, media, req, ctxDone>>

SwItem ==
    /\ sweep.pc = "sw_item"
    /\ sweep' = IF sweep.items = <<>>
                THEN [sweep EXCEPT !.pc = "sw_check"]
                ELSE IF ctxDone
                THEN [sweep EXCEPT !.pc = "done", !.result = "cancelled"]
                ELSE [sweep EXCEPT !.pc = "sw_call"]
    /\ UNCHANGED <<cacheVars, processing, thumbs, tools, media, req, ctxDone>>

\* the default branch: ProcessMediaItem is called with a copy of the item
SwCall ==
    /\ sweep.pc = "sw_call"
    /\ req[Sweeper].pc = "idle"
    /\ req' = [req EXCEPT ![Sweeper] =
                  [pc |-> "pm_enter", op |-> "ProcessMediaItem",
                   id |-> Head(sweep.items).id, dur |-> Head(sweep.items).dur,
                   ret |-> "none", calls |-> req[Sweeper].calls,
                   invoked |-> FALSE, failed |-> FALSE, wrote |-> FALSE,
                   seek |-> Nil, probed |-> Nil, hint |-> Nil,
                   status |-> 0, image |-> <<>>,
                   trail |-> <<>>]]
    /\ sweep' = [sweep EXCEPT !.pc = "sw_wait",
                              !.after = IF ctxDone THEN sweep.after + 1
                                        ELSE sweep.after]
    /\ UNCHANGED <<cacheVars, processing, thumbs, tools, media, ctxDone>>

SwSleepStopOnFailure ==
    /\ sweep.pc = "sw_wait"
    /\ req[Sweeper].pc = "idle"
    /\ sweep' = IF Unserved(req[Sweeper])
                THEN [sweep EXCEPT !.pc = "done", !.result = "failed",
                         !.unserved = sweep.unserved \cup {req[Sweeper].id}]
                ELSE [sweep EXCEPT !.pc = "sw_sleep"]
    /\ UNCHANGED <<cacheVars, processing, thumbs, tools, media, req, ctxDone>>

\* ProcessMediaItem has returned, whatever it returned: totalProcessed++ and
\* time.Sleep(delay) is entered
SwSleep ==
    /\ sweep.pc = "sw_wait"
    /\ req[Sweeper].pc = "idle"
    /\ sweep' = [sweep EXCEPT !.pc = "sw_sleep",
                              !.unserved =
                                  IF Unserved(req[Sweeper])
                                  THEN sweep.unserved \cup {req[Sweeper].id}
                                  ELSE sweep.unserved]
    /\ UNCHANGED <<cacheVars, processing, thumbs, tools, media, req, ctxDone>>

\* the delay has elapsed: time.Sleep returns and the range moves on
SwWake ==
    /\ sweep.pc = "sw_sleep"
    /\ sweep' = [sweep EXCEPT !.pc = "sw_item", !.items = Tail(sweep.items)]
    /\ UNCHANGED <<cacheVars, processing, thumbs, tools, media, req, ctxDone>>

\* the process shuts down: the context is cancelled
Cancel ==
    /\ ~ctxDone
    /\ ctxDone' = TRUE
    /\ UNCHANGED <<cacheVars, processing, thumbs, tools, media, req, sweep>>

\* a step of the background task, inside ProcessMediaItem or around it
SweepStep ==
    \/ SwCheck
    \/ SwFetch
    \/ SwItem
    \/ SwCall
    \/ SwSleep
    \/ SwWake
    \/ (ThumbStep(Sweeper) /\ UNCHANGED sweepVars)

----------------------------------------------------------------------------
(* The library on disk                                                     *)

\* every entry that can exist below the root, in os.ReadDir's order
\* (sorted by file name within a directory)
Tree ==
    << [dir |-> "/lib", name |-> ".hid", isDir |-> TRUE],
       [dir |-> "/lib", name |-> "Movies", isDir |-> TRUE],
       [dir |-> "/lib", name |-> "n.txt", isDir |-> FALSE],
       [dir |-> "/lib", name |-> "t.MP4", isDir |-> FALSE],
       [dir |-> "/lib/.hid", name |-> "h.mkv", isDir |-> FALSE],
       [dir |-> "/lib/Movies", name |-> "Sub", isDir |-> TRUE],
       [dir |-> "/lib/Movies", name |-> "a.mkv", isDir |-> FALSE],
       [dir |-> "/lib/Movies/Sub", name |-> "b.mkv", isDir |-> FALSE] >>

TreePaths == {Join(Tree[i].dir, Tree[i].name) : i \in 1..Len(Tree)}

\* the library paths ScanPath is called with
Roots == {"", "/gone", "/lib/t.MP4", "/lib", "/lib/"}

\* filepath.Clean on the roots that occur: a trailing separator is dropped
Clean(path) == IF path = "/lib/" THEN "/lib" ELSE path

\* the filesystems: the root directory and a parent-closed set of entries
FileSystems ==
    {[p \in {LibraryRoot} \cup ps |->
         [isDir |-> (p = LibraryRoot
                        \/ \E i \in 1..Len(Tree) :
                              Join(Tree[i].dir, Tree[i].name) = p /\ Tree[i].isDir),
          size |-> 1, mtime |-> 1]] :
       ps \in {qs \in SUBSET TreePaths :
                 \A i \in 1..Len(Tree) :
                    Join(Tree[i].dir, Tree[i].name) \in qs
                        => Tree[i].dir \in {LibraryRoot} \cup qs}}

\* os.Stat: the error, or the file info
Stat(f, path) ==
    IF Clean(path) \in DOMAIN f
    THEN [err |-> FALSE, isDir |-> f[Clean(path)].isDir]
    ELSE [err |-> TRUE, isDir |-> FALSE]

\* os.ReadDir: the entries of dir that exist, sorted by name
ReadDir(f, dirPath) ==
    SelectSeq(Tree, LAMBDA e : e.dir = dirPath /\ Join(e.dir, e.name) \in DOMAIN f)

----------------------------------------------------------------------------
(* SQLiteStorage: the statements the scanner issues                        *)

\* INSERT ... ON CONFLICT(path) DO UPDATE SET name = excluded.name
CreateFolder(st, f) ==
    IF \E id \in DOMAIN st.folders : st.folders[id].path = f.path
    THEN [st EXCEPT !.folders =
            [id \in DOMAIN st.folders |->
                IF st.folders[id].path = f.path
                THEN [st.folders[id] EXCEPT !.name = f.name]
                ELSE st.folders[id]]]
    ELSE [st EXCEPT !.folders =
            [id \in DOMAIN st.folders \cup {f.id} |->
                IF id = f.id THEN f ELSE st.folders[id]]]

\* UPDATE folders SET item_count = ? WHERE id = ?
UpdateFolderItemCount(st, id, count) ==
    IF id \in DOMAIN st.folders
    THEN [st EXCEPT !.folders[id].item_count = count]
    ELSE st

CreateMediaItemReplace(st, m) ==
    [st EXCEPT !.media =
        [id \in {i \in DOMAIN st.media : st.media[i].path # m.path} \cup {m.id} |->
            IF id = m.id THEN m ELSE st.media[id]]]

\* INSERT ... ON CONFLICT(path) DO UPDATE SET title, size, file_modified_at
CreateMediaItem(st, m) ==
    IF \E id \in DOMAIN st.media : st.media[id].path = m.path
    THEN [st EXCEPT !.media =
            [id \in DOMAIN st.media |->
                IF st.media[id].path = m.path
                THEN [st.media[id] EXCEPT !.title = m.title, !.size = m.size,
                                          !.mtime = m.mtime]
                ELSE st.media[id]]]
    ELSE [st EXCEPT !.media =
            [id \in DOMAIN st.media \cup {m.id} |->
                IF id = m.id THEN m ELSE st.media[id]]]

DeleteMediaItem(st, id) ==
    [st EXCEPT !.media = [i \in DOMAIN st.media \ {id} |-> st.media[i]]]

DeleteFolder(st, id) ==
    [st EXCEPT !.folders = [i \in DOMAIN st.folders \ {id} |-> st.folders[i]]]

NewFolderRow(path, name, parentID) ==
    [id |-> generateID(path), name |-> name, path |-> path,
     parent_id |-> parentID, item_count |-> 0]

----------------------------------------------------------------------------
(* Scanner                                                                 *)

\* the walk of one directory's entries. isRoot: the entries of the library
\* root (scanLibraryRoot), else those of a folder (scanDirectory). bad: the
\* paths whose entry.Info() or store write fails in this scan.
RECURSIVE scanEntries(_, _, _, _, _, _, _)
RECURSIVE scanDirectory(_, _, _, _, _)

scanEntries(f, st, entries, parentID, isRoot, bad, mediaCount) ==
    IF entries = <<>> THEN [st |-> st, mediaCount |-> mediaCount]
    ELSE
      LET entry == Head(entries)
          rest == Tail(entries)
          fullPath == Join(entry.dir, entry.name)
          skip == scanEntries(f, st, rest, parentID, isRoot, bad, mediaCount)
      IN
      IF entry.isDir
      THEN IF HasPrefix(entry.name, ".") \/ fullPath \in bad THEN skip
           ELSE LET folder == NewFolderRow(fullPath, entry.name,
                                  IF isRoot THEN Nil ELSE <<parentID>>)
                    st1 == CreateFolder(st, folder)
                    st2 == scanDirectory(f, st1, fullPath, folder.id, bad)
                IN  scanEntries(f, st2, rest, parentID, isRoot, bad, mediaCount)
      ELSE IF ~IsSupportedVideo(entry.name) \/ fullPath \in bad THEN skip
           ELSE LET item == NewMediaRow(fullPath,
                                IF isRoot THEN "" ELSE parentID,
                                TrimSuffix(entry.name, Ext(entry.name)),
                                f[fullPath].size, f[fullPath].mtime)
                IN  scanEntries(f, CreateMediaItem(st, item), rest, parentID,
                                isRoot, bad, mediaCount + 1)

scanDirectoryAsRoot(f, st, dirPath, parentID, bad) ==
    scanEntries(f, st, ReadDir(f, dirPath), "", TRUE, bad, 0).st

scanDirectory(f, st, dirPath, parentID, bad) ==
    LET r == scanEntries(f, st, ReadDir(f, dirPath), parentID, FALSE, bad, 0)
    IN  IF r.mediaCount > 0
        THEN UpdateFolderItemCount(r.st, parentID, r.mediaCount)
        ELSE r.st

scanLibraryRootAbortOnBad(f, st, libraryPath, bad) ==
    LET entries == ReadDir(f, libraryPath) IN
    IF \E i \in 1..Len(entries) : Join(entries[i].dir, entries[i].name) \in bad
    THEN st
    ELSE scanEntries(f, st, entries, "", TRUE, bad, 0).st

scanLibraryRoot(f, st, libraryPath, bad) ==
    scanEntries(f, st, ReadDir(f, libraryPath), "", TRUE, bad, 0).st

CleanupDeletedFilesAll(f, st, upTo) == [folders |-> <<>>, media |-> <<>>]

CleanupDeletedFilesMediaOnly(f, st, upTo) ==
    [folders |-> st.folders,
     media |-> [id \in {i \in DOMAIN st.media : ~Stat(f, st.media[i].path).err}
                   |-> st.media[id]]]

\* rows whose path is gone are deleted, media rows first, then folder rows.
\* upTo: how far the pass gets before a listing of the store fails:
\* "none" (GetAllMediaPaths fails), "media" (GetAllFolderPaths fails), "all"
CleanupDeletedFiles(f, st, upTo) ==
    [folders |-> IF upTo = "all"
                 THEN [id \in {i \in DOMAIN st.folders :
                                 ~Stat(f, st.folders[i].path).err}
                          |-> st.folders[id]]
                 ELSE st.folders,
     media |-> IF upTo \in {"media", "all"}
               THEN [id \in {i \in DOMAIN st.media :
                               ~Stat(f, st.media[i].path).err}
                        |-> st.media[id]]
               ELSE st.media]

\* ScanPath's single-flight guard under s.mu
scanEnterNoCheck(flag) == [proceed |-> TRUE, scanning |-> TRUE]

scanEnter(flag) ==
    IF flag THEN [proceed |-> FALSE, scanning |-> flag]
    ELSE [proceed |-> TRUE, scanning |-> TRUE]

\* ScanPath's checks of the library path: what it returns, or "ok" to go on
validateRootDirsOnlyLater(f, libraryPath) ==
    IF libraryPath = "" THEN "nil"
    ELSE IF Stat(f, libraryPath).err THEN "err"
    ELSE "ok"

validateRoot(f, libraryPath) ==
    IF libraryPath = "" THEN "nil"
    ELSE IF Stat(f, libraryPath).err THEN "err"
    ELSE IF ~Stat(f, libraryPath).isDir THEN "nil"
    ELSE "ok"

Scanners == {"s1", "s2"}

\* noop, io, cleaned, upTo (ghost): what this call did.
\* rescan (ghost): the call's cleanup began on a synced store.
\* whole (ghost): the call's cleanup was complete and no file has been
\* added, removed or rewritten since.
IdleScan == [pc |-> "idle", path |-> "", ret |-> "none", noop |-> FALSE,
             io |-> FALSE, cleaned |-> FALSE, upTo |-> "", rescan |-> FALSE,
             whole |-> FALSE, calls |-> 0]

Store == [folders |-> folders, media |-> media]

CallScanPath(t, libraryPath) ==
    /\ scan[t].pc = "idle" /\ scan[t].calls < MaxScans
    /\ scan' = [scan EXCEPT ![t] = [pc |-> "sc_enter", path |-> libraryPath,
                                    ret |-> "none", noop |-> FALSE,
                                    io |-> FALSE, cleaned |-> FALSE,
                                    upTo |-> "", rescan |-> FALSE,
                                    whole |-> FALSE,
                                    calls |-> scan[t].calls + 1]]
    /\ UNCHANGED <<scanning, fs, folders, media, faults, synced>>

\* lock, test and set the flag, unlock
ScEnter(t) ==
    /\ scan[t].pc = "sc_enter"
    /\ LET r == scanEnter(scanning) IN
          /\ scanning' = r.scanning
          /\ scan' = [scan EXCEPT ![t] =
                         IF r.proceed THEN [scan[t] EXCEPT !.pc = "sc_check"]
                         ELSE [scan[t] EXCEPT !.pc = "idle", !.ret = "nil",
                                              !.noop = TRUE]]
    /\ UNCHANGED <<fs, folders, media, faults, synced>>

\* the empty-path test, os.Stat and IsDir
ScCheck(t) ==
    /\ scan[t].pc = "sc_check"
    /\ LET v == validateRoot(fs, scan[t].path) IN
          scan' = [scan EXCEPT ![t] =
                      IF v = "ok"
                      THEN [scan[t] EXCEPT !.pc = "sc_cleanup", !.io = TRUE,
                                           !.path = Clean(scan[t].path)]
                      ELSE [scan[t] EXCEPT !.pc = "sc_exit", !.ret = v,
                                           !.io = (scan[t].path # "")]]
    /\ UNCHANGED <<scanning, fs, folders, media, faults, synced>>

ScCleanupFatal(t) ==
    /\ scan[t].pc = "sc_cleanup"
    /\ \E upTo \in IF faults THEN {"none", "media", "all"} ELSE {"all"} :
          LET st == CleanupDeletedFiles(fs, Store, upTo) IN
          /\ folders' = st.folders
          /\ media' = st.media
          /\ scan' = [scan EXCEPT ![t].pc = IF upTo = "all" THEN "sc_walk"
                                            ELSE "sc_exit",
                                  ![t].ret = IF upTo = "all" THEN "none"
                                             ELSE "err",
                                  ![t].cleaned = TRUE,
                                  ![t].upTo = upTo, ![t].rescan = synced,
                                  ![t].whole = (upTo = "all")]
    /\ UNCHANGED <<scanning, fs, faults, synced>>

\* CleanupDeletedFiles; its error (a listing of the store failed) is only logged
ScCleanup(t) ==
    /\ scan[t].pc = "sc_cleanup"
    /\ \E upTo \in IF faults THEN {"none", "media", "all"} ELSE {"all"} :
          LET st == CleanupDeletedFiles(fs, Store, upTo) IN
          /\ folders' = st.folders
          /\ media' = st.media
          /\ scan' = [scan EXCEPT ![t].pc = "sc_walk", ![t].cleaned = TRUE,
                                  ![t].upTo = upTo, ![t].rescan = synced,
                                  ![t].whole = (upTo = "all")]
    /\ UNCHANGED <<scanning, fs, faults, synced>>

\* scanLibraryRoot, whose error (os.ReadDir of the root failed) is
\* ScanPath's result
ScWalk(t) ==
    /\ scan[t].pc = "sc_walk"
    /\ \E readOK \in IF faults THEN BOOLEAN ELSE {TRUE},
          bad \in IF faults THEN {{}} \cup {{p} : p \in DOMAIN fs} ELSE {{}} :
          LET st == IF readOK
                    THEN scanLibraryRoot(fs, Store, scan[t].path, bad)
                    ELSE Store
          IN
          /\ folders' = st.folders
          /\ media' = st.media
          /\ synced' = (synced \/ (readOK /\ bad = {} /\ scan[t].whole))
          /\ scan' = [scan EXCEPT ![t].pc = "sc_exit",
                                  ![t].ret = IF readOK THEN "nil" ELSE "err"]
    /\ UNCHANGED <<scanning, fs, faults>>

ScExitOnSuccessOnly(t) ==
    /\ scan[t].pc = "sc_exit"
    /\ scanning' = IF scan[t].ret = "err" THEN scanning ELSE FALSE
    /\ scan' = [scan EXCEPT ![t].pc = "idle"]
    /\ UNCHANGED <<fs, folders, media, faults, synced>>

\* the deferred clearing of the flag, then the return
ScExit(t) ==
    /\ scan[t].pc = "sc_exit"
    /\ scanning' = FALSE
    /\ scan' = [scan EXCEPT ![t].pc = "idle"]
    /\ UNCHANGED <<fs, folders, media, faults, synced>>

(* the library changes on disk while the server runs *)

\* ghost: the calls in progress have not seen one unchanged tree
Disturbed == [t \in Scanners |-> [scan[t] EXCEPT !.whole = FALSE]]

\* a file or a directory appears in a directory that exists
FsAdd(p) ==
    /\ p \in TreePaths \ DOMAIN fs
    /\ \E i \in 1..Len(Tree) :
          /\ Join(Tree[i].dir, Tree[i].name) = p
          /\ Tree[i].dir \in DOMAIN fs
          /\ fs' = [q \in DOMAIN fs \cup {p} |->
                      IF q = p
                      THEN [isDir |-> Tree[i].isDir, size |-> 1, mtime |-> 1]
                      ELSE fs[q]]
    /\ synced' = FALSE
    /\ scan' = Disturbed
    /\ UNCHANGED <<scanning, folders, media, faults>>

\* a file or an empty directory is removed
FsRemove(p) ==
    /\ p \in DOMAIN fs \ {LibraryRoot}
    /\ ~ \E i \in 1..Len(Tree) :
            Tree[i].dir = p /\ Join(Tree[i].dir, Tree[i].name) \in DOMAIN fs
    /\ fs' = [q \in DOMAIN fs \ {p} |-> fs[q]]
    /\ synced' = FALSE
    /\ scan' = Disturbed
    /\ UNCHANGED <<scanning, folders, media, faults>>

\* the files that get rewritten in place
Rewritable == {Join(LibraryRoot, "t.MP4")}

\* a file is rewritten: its size and modification time change
FsWrite(p) ==
    /\ p \in DOMAIN fs
    /\ ~fs[p].isDir
    /\ fs[p].size = 1
    /\ p \in Rewritable
    /\ fs' = [fs EXCEPT ![p] = [isDir |-> FALSE, size |-> 2, mtime |-> 2]]
    /\ synced' = FALSE
    /\ scan' = Disturbed
    /\ UNCHANGED <<scanning, folders, media, faults>>

----------------------------------------------------------------------------
(* The specifications                                                      *)

\* no library on disk, no scan requested
InitNoScanner ==
    /\ scanning = FALSE
    /\ fs = <<>>
    /\ folders = <<>>
    /\ scan = [t \in Scanners |-> IdleScan]
    /\ synced = FALSE

\* StartBackgroundProcessing has not been called
InitNoSweep ==
    /\ sweep = IdleSweep
    /\ ctxDone = FALSE

InitCache ==
    /\ \E cap \in 0..MaxCapacity, budget \in 0..MaxBudget :
           cache = NewLRUCache(cap, budget)
    /\ recency = <<>>
    /\ lastOp = NoOp
    /\ processing = {}
    /\ thumbs = {}
    /\ tools = [ffprobe |-> FALSE, ffmpeg |-> FALSE]
    /\ media = <<>>
    /\ req = [t \in Procs |-> IdleReq]
    /\ InitNoScanner
    /\ InitNoSweep
    /\ faults = TRUE

NextCache ==
    \/ \E k \in Keys : Get(k) /\ UNCHANGED <<thumbVars, scanVars>>
    \/ \E k \in Keys, d \in DataValues :
          Set(k, d) /\ UNCHANGED <<thumbVars, scanVars>>
    \/ \E k \in Keys : Delete(k) /\ UNCHANGED <<thumbVars, scanVars>>
    \/ Clear /\ UNCHANGED <<thumbVars, scanVars>>

SpecCache == InitCache /\ [][NextCache]_vars

MediaTables ==
    {[id \in ids |->
         NewMediaRow(CHOOSE p \in ThumbPaths : generateID(p) = id, "",
                     "video", 1, 1)] : ids \in SUBSET ThumbIDs}

InitThumb ==
    /\ cache = NewLRUCache(1, 2)
    /\ recency = <<>>
    /\ lastOp = NoOp
    /\ processing = {}
    /\ thumbs \in SUBSET ThumbIDs
    /\ tools \in [ffprobe : BOOLEAN, ffmpeg : BOOLEAN]
    /\ media \in MediaTables
    /\ req = [t \in Procs |-> IdleReq]
    /\ InitNoScanner
    /\ InitNoSweep
    /\ faults = TRUE

NoScanNoSweep == UNCHANGED <<scanVars, sweepVars>>

NextThumb ==
    \/ \E t \in Handlers, id \in ThumbIDs :
          CallGetThumbnail(t, id) /\ NoScanNoSweep
    \/ \E t \in Handlers, id \in ThumbIDs :
          CallProcessMediaItem(t, id, MaxCalls) /\ NoScanNoSweep
    \/ \E t \in Handlers : ThumbStep(t) /\ NoScanNoSweep

SpecThumb == InitThumb /\ [][NextThumb]_vars

\* N goroutines each launch one ProcessMediaItem for the same media ID
BurstID == generateID(Join(LibraryRoot, "t.MP4"))

InitBurst ==
    /\ cache = NewLRUCache(1, 2)
    /\ recency = <<>>
    /\ lastOp = NoOp
    /\ processing = {}
    /\ thumbs = {}
    /\ tools \in [ffprobe : BOOLEAN, ffmpeg : {TRUE}]
    /\ media \in {m \in MediaTables : BurstID \in DOMAIN m}
    /\ req = [t \in Procs |-> IdleReq]
    /\ InitNoScanner
    /\ InitNoSweep
    /\ faults = TRUE

NextBurst ==
    \/ \E t \in Procs : CallProcessMediaItem(t, BurstID, 1) /\ NoScanNoSweep
    \/ \E t \in Procs : GenStat(t) /\ NoScanNoSweep
    \/ \E t \in Procs : GenRun(t) /\ NoScanNoSweep
    \/ \E t \in Procs : PmEnter(t) /\ NoScanNoSweep
    \/ \E t \in Procs : PmMeta(t) /\ NoScanNoSweep
    \/ \E t \in Procs : PmThumb(t) /\ NoScanNoSweep
    \/ \E t \in Procs : PmExit(t) /\ NoScanNoSweep

SpecBurst == InitBurst /\ [][NextBurst]_vars

\* the request handler that calls into the service while the sweep runs
Caller == "g1"

\* one video of any duration up to MaxDuration seconds, or of a duration not
\* read yet, and a handler asking for its thumbnail
InitSeek ==
    /\ cache = NewLRUCache(1, 2)
    /\ recency = <<>>
    /\ lastOp = NoOp
    /\ processing = {}
    /\ thumbs = {}
    /\ tools \in [ffprobe : BOOLEAN, ffmpeg : {TRUE}]
    /\ \E dur \in {Nil} \cup {<<d>> : d \in 0..MaxDuration} :
           media = [id \in {BurstID} |->
                       [NewMediaRow(Join(LibraryRoot, "t.MP4"), "", "t", 1, 1)
                           EXCEPT !.duration = dur]]
    /\ req = [t \in Procs |-> IdleReq]
    /\ InitNoScanner
    /\ InitNoSweep
    /\ faults = TRUE

NextSeek ==
    \/ CallGetThumbnail(Caller, BurstID) /\ NoScanNoSweep
    \/ CallProcessMediaItem(Caller, BurstID, MaxCalls) /\ NoScanNoSweep
    \/ ThumbStep(Caller) /\ NoScanNoSweep

SpecSeek == InitSeek /\ [][NextSeek]_vars

\* the background sweep over a table of unenriched rows, a request handler
\* calling ProcessMediaItem meanwhile, and the shutdown
InitSweep ==
    /\ cache = NewLRUCache(1, 2)
    /\ recency = <<>>
    /\ lastOp = NoOp
    /\ processing = {}
    /\ thumbs = {}
    /\ tools \in [ffprobe : BOOLEAN, ffmpeg : BOOLEAN]
    /\ media \in MediaTables
    /\ req = [t \in Procs |-> IdleReq]
    /\ InitNoScanner
    /\ InitNoSweep
    /\ faults \in BOOLEAN

NextSweep ==
    \/ StartBackgroundProcessing(BatchSize) /\ UNCHANGED scanVars
    \/ SwCheck /\ UNCHANGED scanVars
    \/ SwFetch /\ UNCHANGED scanVars
    \/ SwItem /\ UNCHANGED scanVars
    \/ SwCall /\ UNCHANGED scanVars
    \/ SwSleep /\ UNCHANGED scanVars
    \/ SwWake /\ UNCHANGED scanVars
    \/ ThumbStep(Sweeper) /\ NoScanNoSweep
    \/ \E id \in ThumbIDs : CallProcessMediaItem(Caller, id, 1) /\ NoScanNoSweep
    \/ ThumbStep(Caller) /\ NoScanNoSweep
    \/ Cancel /\ UNCHANGED scanVars

SpecSweep == InitSweep /\ [][NextSweep]_vars

\* the sweep alone over a backlog of unenriched rows, started with any page
\* size from 1 up: no cancellation, no store error, no other caller
InitBacklog ==
    /\ cache = NewLRUCache(1, 2)
    /\ recency = <<>>
    /\ lastOp = NoOp
    /\ processing = {}
    /\ thumbs = {}
    /\ tools \in [ffprobe : BOOLEAN, ffmpeg : BOOLEAN]
    /\ media \in MediaTables
    /\ req = [t \in Procs |-> IdleReq]
    /\ InitNoScanner
    /\ InitNoSweep
    /\ faults = FALSE

NextBacklog ==
    \/ \E n \in 1..BatchSize : StartBackgroundProcessing(n) /\ UNCHANGED scanVars
    \/ SwCheck /\ UNCHANGED scanVars
    \/ SwFetch /\ UNCHANGED scanVars
    \/ SwItem /\ UNCHANGED scanVars
    \/ SwCall /\ UNCHANGED scanVars
    \/ SwSleep /\ UNCHANGED scanVars
    \/ SwWake /\ UNCHANGED scanVars
    \/ ThumbStep(Sweeper) /\ NoScanNoSweep

SpecBacklog == InitBacklog /\ [][NextBacklog]_vars

\* the scheduler starts the task and runs it whenever it can take a step
SpecBacklogLive ==
    /\ SpecBacklog
    /\ WF_vars(\E n \in 1..BatchSize :
                  StartBackgroundProcessing(n) /\ UNCHANGED scanVars)
    /\ WF_vars(SweepStep /\ UNCHANGED scanVars)

\* the scheduler runs the background goroutine and the handler whenever they
\* can take a step
SpecSweepLive ==
    /\ SpecSweep
    /\ WF_vars(StartBackgroundProcessing(BatchSize) /\ UNCHANGED scanVars)
    /\ WF_vars(SweepStep /\ UNCHANGED scanVars)
    /\ WF_vars(ThumbStep(Caller) /\ NoScanNoSweep)

EmptyStore == [folders |-> <<>>, media |-> <<>>]

\* the filesystem with every entry present
FullFS == CHOOSE f \in FileSystems : DOMAIN f = {LibraryRoot} \cup TreePaths

\* every media row enriched, as the ThumbnailService leaves the table
RECURSIVE EnrichTable(_, _)
EnrichTable(tbl, ids) ==
    IF ids = {} THEN tbl
    ELSE LET id == CHOOSE i \in ids : TRUE IN
         EnrichTable(UpdateMediaMetadata(tbl, id, Probed(30)), ids \ {id})

EnrichAll(st) == [st EXCEPT !.media = EnrichTable(st.media, DOMAIN st.media)]

\* the database file outlives the process: it is new, or holds the rows of
\* a scan made when every entry was on disk, enriched since
ScannedStore == scanLibraryRoot(FullFS, EmptyStore, LibraryRoot, {})

StoresAtStart == {EmptyStore, EnrichAll(ScannedStore)}

\* goroutines (the startup task, HTTP scan requests) calling ScanPath; the
\* store and the disk may fail at any call
\* the filesystems without a nested folder
FlatFileSystems ==
    {f \in FileSystems : Join(Join(LibraryRoot, "Movies"), "Sub") \notin DOMAIN f}

InitScan ==
    /\ cache = NewLRUCache(1, 2)
    /\ recency = <<>>
    /\ lastOp = NoOp
    /\ processing = {}
    /\ thumbs = {}
    /\ tools = [ffprobe |-> FALSE, ffmpeg |-> FALSE]
    /\ req = [t \in Procs |-> IdleReq]
    /\ InitNoSweep
    /\ scanning = FALSE
    /\ fs \in FlatFileSystems
    /\ \E st \in {EmptyStore, ScannedStore} : folders = st.folders /\ media = st.media
    /\ scan = [t \in Scanners |-> IdleScan]
    /\ faults = TRUE
    /\ synced = FALSE

ScanIdle == UNCHANGED <<cacheVars, processing, thumbs, tools, req, sweepVars>>

NextScan ==
    \/ \E t \in Scanners, root \in Roots : CallScanPath(t, root) /\ ScanIdle
    \/ \E t \in Scanners : ScEnter(t) /\ ScanIdle
    \/ \E t \in Scanners : ScCheck(t) /\ ScanIdle
    \/ \E t \in Scanners : ScCleanup(t) /\ ScanIdle
    \/ \E t \in Scanners : ScWalk(t) /\ ScanIdle
    \/ \E t \in Scanners : ScExit(t) /\ ScanIdle

SpecScan == InitScan /\ [][NextScan]_vars

\* one goroutine rescanning the library while files come and go on disk;
\* the store and the disk do not fail
Rescanner == "s1"

InitLib ==
    /\ cache = NewLRUCache(1, 2)
    /\ recency = <<>>
    /\ lastOp = NoOp
    /\ processing = {}
    /\ thumbs = {}
    /\ tools = [ffprobe |-> FALSE, ffmpeg |-> FALSE]
    /\ req = [t \in Procs |-> IdleReq]
    /\ InitNoSweep
    /\ scanning = FALSE
    /\ fs \in FileSystems
    /\ \E st \in StoresAtStart : folders = st.folders /\ media = st.media
    /\ scan = [t \in Scanners |-> IdleScan]
    /\ faults = FALSE
    /\ synced = FALSE

NextLib ==
    \/ CallScanPath(Rescanner, LibraryRoot) /\ ScanIdle
    \/ ScEnter(Rescanner) /\ ScanIdle
    \/ ScCheck(Rescanner) /\ ScanIdle
    \/ ScCleanup(Rescanner) /\ ScanIdle
    \/ ScWalk(Rescanner) /\ ScanIdle
    \/ ScExit(Rescanner) /\ ScanIdle
    \/ \E p \in TreePaths : FsAdd(p) /\ ScanIdle
    \/ \E p \in TreePaths : FsRemove(p) /\ ScanIdle
    \/ \E p \in TreePaths : FsWrite(p) /\ ScanIdle

SpecLib == InitLib /\ [][NextLib]_vars

\* one goroutine scanning a library of any shape, nested folders included,
\* into a new or a filled store; the store and the disk may fail at any call
InitWalk ==
    /\ cache = NewLRUCache(1, 2)
    /\ recency = <<>>
    /\ lastOp = NoOp
    /\ processing = {}
    /\ thumbs = {}
    /\ tools = [ffprobe |-> FALSE, ffmpeg |-> FALSE]
    /\ req = [t \in Procs |-> IdleReq]
    /\ InitNoSweep
    /\ scanning = FALSE
    /\ fs \in FileSystems
    /\ \E st \in {EmptyStore, ScannedStore} : folders = st.folders /\ media = st.media
    /\ scan = [t \in Scanners |-> IdleScan]
    /\ faults = TRUE
    /\ synced = FALSE

NextWalk ==
    \/ CallScanPath(Rescanner, LibraryRoot) /\ ScanIdle
    \/ ScEnter(Rescanner) /\ ScanIdle
    \/ ScCheck(Rescanner) /\ ScanIdle
    \/ ScCleanup(Rescanner) /\ ScanIdle
    \/ ScWalk(Rescanner) /\ ScanIdle
    \/ ScExit(Rescanner) /\ ScanIdle

SpecWalk == InitWalk /\ [][NextWalk]_vars

\* a scanned library whose files get deleted, rescans, and one goroutine
\* asking for thumbnails: the store and the disk do not fail
InitServe ==
    /\ cache = NewLRUCache(1, 2)
    /\ recency = <<>>
    /\ lastOp = NoOp
    /\ processing = {}
    /\ thumbs \in SUBSET ThumbIDs
    /\ tools = [ffprobe |-> FALSE, ffmpeg |-> TRUE]
    /\ req = [t \in Procs |-> IdleReq]
    /\ InitNoSweep
    /\ scanning = FALSE
    /\ fs = FullFS
    /\ folders = ScannedStore.folders /\ media = ScannedStore.media
    /\ scan = [t \in Scanners |-> IdleScan]
    /\ faults = FALSE
    /\ synced = TRUE

NextServe ==
    \/ CallScanPath(Rescanner, LibraryRoot) /\ ScanIdle
    \/ ScEnter(Rescanner) /\ ScanIdle
    \/ ScCheck(Rescanner) /\ ScanIdle
    \/ ScCleanup(Rescanner) /\ ScanIdle
    \/ ScWalk(Rescanner) /\ ScanIdle
    \/ ScExit(Rescanner) /\ ScanIdle
    \/ \E p \in ThumbPaths : FsRemove(p) /\ ScanIdle
    \/ \E id \in ThumbIDs : CallGetThumbnail(Caller, id) /\ NoScanNoSweep
    \/ \E id \in ThumbIDs : HasThumbnail(Caller, id) /\ NoScanNoSweep
    \/ ThumbStep(Caller) /\ NoScanNoSweep

SpecServe == InitServe /\ [][NextServe]_vars

(* main's startup task and the scan endpoint *)

\* the goroutine main starts: scanner.ScanPath(cfg.Library.Path, ...), once
StartupScan ==
    /\ scan[Rescanner].calls = 0
    /\ CallScanPath(Rescanner, LibraryRoot)

\* ... and, when that call returned no error, StartBackgroundProcessing
StartupSweep ==
    /\ scan[Rescanner].calls > 0
    /\ scan[Rescanner].pc = "idle"
    /\ scan[Rescanner].ret = "nil"
    /\ StartBackgroundProcessing(BatchSize)

\* the goroutine the scan endpoint starts
Trigger == "s2"

\* Handler.ScanLibrary: "in_progress" when IsScanning(), else
\* go ScanPath(libraryPath, libraryName)
ScanLibrary ==
    /\ ~scanning
    /\ CallScanPath(Trigger, LibraryRoot)

\* the server starts on an empty store with the library on disk; ffprobe and
\* ffmpeg are not installed; the store and the disk do not fail
InitStartup ==
    /\ cache = NewLRUCache(1, 2)
    /\ recency = <<>>
    /\ lastOp = NoOp
    /\ processing = {}
    /\ thumbs = {}
    /\ tools = [ffprobe |-> FALSE, ffmpeg |-> FALSE]
    /\ req = [t \in Procs |-> IdleReq]
    /\ InitNoSweep
    /\ scanning = FALSE
    /\ fs = FullFS
    /\ folders = EmptyStore.folders /\ media = EmptyStore.media
    /\ scan = [t \in Scanners |-> IdleScan]
    /\ faults = FALSE
    /\ synced = FALSE

NextStartup ==
    \/ StartupScan /\ ScanIdle
    \/ ScanLibrary /\ ScanIdle
    \/ \E t \in Scanners :
          (ScEnter(t) \/ ScCheck(t) \/ ScCleanup(t) \/ ScWalk(t) \/ ScExit(t))
          /\ ScanIdle
    \/ StartupSweep /\ UNCHANGED scanVars
    \/ SweepStep /\ UNCHANGED scanVars
    \/ Cancel /\ UNCHANGED scanVars

SpecStartup == InitStartup /\ [][NextStartup]_vars

----------------------------------------------------------------------------
(* Claims about the ThumbnailService, checked under SpecThumb / SpecBurst  *)

\* goroutine t is inside a generator invocation (the ffmpeg subprocess of
\* Generate is running) for media ID id
Generating(t, id) == req[t].id = id /\ req[t].pc = "gen_run"

\* goroutine t executes a ProcessMediaItem call that has registered id
Registered(t, id) ==
    /\ req[t].op = "ProcessMediaItem" /\ req[t].id = id
    /\ req[t].pc \in {"pm_meta", "pm_thumb", "gen_stat", "gen_run", "pm_exit"}

\* C1: at no time are two generator invocations for the same media ID in
\* progress, whether started by GetThumbnail or by ProcessMediaItem.
C1_OneGenerationPerID ==
    \A id \in ThumbIDs : Cardinality({t \in Procs : Generating(t, id)}) <= 1

Invoked == {t \in Procs : req[t].invoked}

Failed == {t \in Procs : req[t].failed}

\* C2 as stated: N concurrent ProcessMediaItem calls for one media ID invoke
\* the generator at most once in total, whatever the outcome of generation.
C2_AtMostOneInvocation == Cardinality(Invoked) <= 1

\* C2 as amended: the calls never run two generator invocations at once, and
\* the number of invocations is at most one more than the number of failed
\* generations (so at most one when generation succeeds).
C2_OneInvocationPerFailure ==
    /\ Cardinality({t \in Procs : Generating(t, BurstID)}) <= 1
    /\ Cardinality(Invoked) <= Cardinality(Failed) + 1

\* all N calls have returned: one generation failed, a later one succeeded
C2_Witness ==
    /\ \A t \in Procs : req[t].pc = "idle" /\ req[t].calls = 1
    /\ Cardinality(Invoked) = 2 /\ Cardinality(Failed) = 1
    /\ BurstID \in thumbs

\* C3: a media ID is in the in-flight set exactly while one ProcessMediaItem
\* call that registered it is executing; a call that found it present has
\* returned without removing it; with no call executing the set is empty.
C3_InFlightExactlyWhileRegistered ==
    \A id \in ThumbIDs :
        /\ (id \in processing) <=> (\E t \in Procs : Registered(t, id))
        /\ Cardinality({t \in Procs : Registered(t, id)}) <= 1

\* a second call has returned as a no-op while the first is still generating
C3_Witness ==
    \E t1, t2 \in Procs :
        /\ Registered(t1, req[t1].id) /\ req[t1].pc = "gen_run"
        /\ req[t2].pc = "idle" /\ req[t2].ret = "skip" /\ req[t2].id = req[t1].id
        /\ req[t1].id \in processing

\* goroutine t takes a step inside a GetThumbnail call
GtSteps(t) ==
    req[t].op = "GetThumbnail" /\ req[t].pc # "idle" /\ req'[t] # req[t]

\* seq is an initial part of full
IsPrefix(seq, full) ==
    Len(seq) <= Len(full) /\ \A k \in 1..Len(seq) : seq[k] = full[k]

\* C17: a GetThumbnail call goes through cache, disk, store and generator in
\* that order and stops at the first match. On a cache hit it returns the
\* bytes having touched only the cache; on a disk hit it returns the bytes
\* and offers them to the cache, having touched only cache and disk; it
\* invokes the generator only after a cache miss, a disk miss and a lookup
\* that found the record, with the generator available.
C17_CacheThenDiskThenGenerate ==
    [][ \A t \in Handlers : GtSteps(t) =>
           /\ IsPrefix(req'[t].trail, <<"cache", "disk", "store", "gen">>)
           /\ (req[t].pc = "gt_cache" /\ req[t].id \in cache.items)
                 => /\ req'[t].pc = "idle" /\ req'[t].ret = "data"
                    /\ req'[t].trail = <<"cache">>
                    /\ thumbs' = thumbs /\ media' = media
           /\ (req[t].pc = "gt_disk" /\ req[t].id \in thumbs)
                 => /\ req'[t].pc = "idle" /\ req'[t].ret = "data"
                    /\ req'[t].trail = <<"cache", "disk">>
                    /\ lastOp'.op = "Set" /\ lastOp'.key = req[t].id
           /\ (Len(req'[t].trail) = Len(<<"cache", "disk", "store", "gen">>)
                   /\ req'[t].trail # req[t].trail)
                 => /\ req[t].trail = <<"cache", "disk", "store">>
                    /\ req[t].id \in DOMAIN media
                    /\ tools.ffmpeg ]_vars

\* one call has returned bytes from the cache alone while another, after
\* missing cache and disk and finding the record, is inside the generator
C17_Witness ==
    \E t, u \in Handlers :
        /\ t # u
        /\ req[t].op = "GetThumbnail" /\ req[t].pc = "idle"
        /\ req[t].ret = "data" /\ req[t].trail = <<"cache">>
        /\ req[u].op = "GetThumbnail" /\ req[u].pc = "gen_run"
        /\ req[u].trail = <<"cache", "disk", "store", "gen">>

\* C18: when cache and disk have both missed and the store answers, a
\* GetThumbnail call for an ID without a record returns an empty result and
\* no error whether or not the generator is available, and a call for an ID
\* with a record and no generator returns the unavailable error.
C18_NotFoundBeforeUnavailable ==
    [][ \A t \in Handlers :
           (GtSteps(t) /\ req[t].pc = "gt_lookup" /\ req'[t].ret # "err_store")
           => /\ req[t].id \notin DOMAIN media
                 => req'[t].pc = "idle" /\ req'[t].ret = "nil"
              /\ (req[t].id \in DOMAIN media /\ ~tools.ffmpeg)
                 => req'[t].pc = "idle" /\ req'[t].ret = "err_unavailable"
      ]_vars

\* without a generator, one call has returned not-found for an unknown ID
\* and another the unavailable error for a known one
C18_Witness ==
    \E t, u \in Handlers :
        /\ ~tools.ffmpeg
        /\ req[t].pc = "idle" /\ req[t].ret = "nil"
        /\ req[t].op = "GetThumbnail" /\ req[t].id \notin DOMAIN media
        /\ req[u].pc = "idle" /\ req[u].ret = "err_unavailable"
        /\ req[u].id \in DOMAIN media

----------------------------------------------------------------------------
(* Claims about the LRUCache, checked under SpecCache                      *)

\* C4: after any sequence of Get, Set, Delete and Clear calls, including a
\* Set that replaces the value of an existing key with a larger one,
\* Size() <= maxSize when the call has returned.
C4_SizeWithinBudget == LRUSize(cache) <= cache.maxSize

\* C5: after any sequence of Set calls the number of entries never exceeds
\* the capacity: Len() <= capacity.
C5_LenWithinCapacity == LRULen(cache) <= cache.capacity

\* a Set on a full cache has just evicted for the count limit
C5_Witness ==
    /\ lastOp.op = "Set" /\ lastOp.ok /\ lastOp.evicted # {}
    /\ cache.capacity >= 2
    /\ LRULen(cache) = cache.capacity

\* C6: a Set whose data alone is longer than maxSize leaves the cache as it
\* was: keys, values, recency order, Size() and Len().
C6_OversizeSetIsNoOp ==
    [][(lastOp'.op = "Set" /\ lastOp'.len > cache.maxSize)
          => (cache' = cache /\ recency' = recency)]_vars

\* an oversize Set for a key that is held has been rejected
C6_Witness ==
    /\ lastOp.op = "Set" /\ lastOp.len > cache.maxSize
    /\ lastOp.key \in cache.items
    /\ LRULen(cache) >= 1

\* C7: what a Set evicts are the entries whose latest successful Get or Set
\* is oldest among the entries held, and a Get hit makes its entry the
\* most recently used one.
C7_EvictsLeastRecent ==
    [][/\ lastOp'.op = "Set" =>
            /\ Cardinality(lastOp'.evicted) <= Len(recency)
            /\ lastOp'.evicted =
                   {recency[i].key : i \in 1..Cardinality(lastOp'.evicted)}
       /\ (lastOp'.op = "Get" /\ lastOp'.ok) =>
            cache'.order[1].key = lastOp'.key]_vars

\* a Set has evicted while an entry promoted by a Get hit stayed
C7_Witness ==
    /\ lastOp.op = "Set" /\ lastOp.evicted # {}
    /\ LRULen(cache) >= 2
    /\ \E i \in 1..Len(recency) :
           recency[i].via = "get" /\ recency[i].key \in cache.items

----------------------------------------------------------------------------
(* Claims about the Scanner, checked under SpecScan                        *)

\* the call of goroutine t is between setting and clearing the scanning flag
InScan(sc, t) == sc[t].pc \in {"sc_check", "sc_cleanup", "sc_walk", "sc_exit"}

\* the root is not an existing directory: read off the filesystem itself
RootInvalid(f, path) ==
    ~ \E p \in DOMAIN f : p = Clean(path) /\ f[p].isDir

\* goroutine t's call has returned, and it was not the guard's no-op
Returned(t) ==
    scan[t].pc = "idle" /\ scan[t].ret # "none" /\ ~scan[t].noop

\* C8: at most one ScanPath call at a time is between setting and clearing
\* the scanning flag, and a call that arrives while another one is there
\* returns nil in its next step, having read nothing from the filesystem and
\* having left the folder and media rows as they were.
C8_SingleFlight ==
    [][ /\ \A t, u \in Scanners :
              InScan(scan', t) /\ InScan(scan', u) => t = u
        /\ \A t \in Scanners :
              ( /\ scan[t].pc = "sc_enter"
                /\ scan'[t] # scan[t]
                /\ \E u \in Scanners \ {t} : InScan(scan, u) )
              => ( /\ scan'[t].pc = "idle"
                   /\ scan'[t].ret = "nil"
                   /\ ~scan'[t].io
                   /\ ~scan'[t].cleaned
                   /\ folders' = folders
                   /\ media' = media ) ]_vars

\* one call is cleaning up or walking, another has returned as a no-op
C8_Witness ==
    \E t, u \in Scanners :
        /\ t # u
        /\ scan[t].pc \in {"sc_cleanup", "sc_walk"}
        /\ scan[u].pc = "idle" /\ scan[u].noop /\ scan[u].ret = "nil"

\* C9: a ScanPath call that got past the guard with a root that does not
\* exist, or that exists and is not a directory, returns a non-nil error.
C9_InvalidRootIsError ==
    \A t \in Scanners :
        (Returned(t) /\ scan[t].path # "" /\ RootInvalid(fs, scan[t].path))
            => scan[t].ret = "err"

\* C10 as stated: no step of a ScanPath call whose root does not exist or is
\* not a directory changes a folder or media row or starts the cleanup pass
\* or the walk, and when the call returns the scanning flag is false.
C10_InvalidRootLeavesNoTrace ==
    [][ \A t \in Scanners :
           ( /\ scan[t].pc # "idle"
             /\ scan'[t] # scan[t]
             /\ RootInvalid(fs, scan[t].path) )
           => ( /\ folders' = folders
                /\ media' = media
                /\ ~scan'[t].cleaned
                /\ scan'[t].pc \notin {"sc_cleanup", "sc_walk"}
                /\ (scan'[t].pc = "idle" => ~scanning') ) ]_vars

\* C10 as amended: the same, except that a call which found another scan
\* running returns with the flag as it found it (still held by that scan);
\* a call that took the flag returns with the flag false.
C10_InvalidRootLeavesNoTraceUnlessBusy ==
    [][ \A t \in Scanners :
           ( /\ scan[t].pc # "idle"
             /\ scan'[t] # scan[t]
             /\ RootInvalid(fs, scan[t].path) )
           => ( /\ folders' = folders
                /\ media' = media
                /\ ~scan'[t].cleaned
                /\ scan'[t].pc \notin {"sc_cleanup", "sc_walk"}
                /\ (scan'[t].pc = "idle" /\ ~scan'[t].noop => ~scanning')
                /\ (scan'[t].pc = "idle" /\ scan'[t].noop
                       => scanning' = scanning) ) ]_vars

\* with rows in the store, one call has returned for a root that is missing
\* and another for a root that is a regular file; the flag is false
C10_Witness ==
    \E t, u \in Scanners :
        /\ Returned(t) /\ Returned(u)
        /\ scan[t].path # "" /\ Clean(scan[t].path) \notin DOMAIN fs
        /\ scan[u].path \in DOMAIN fs /\ ~fs[scan[u].path].isDir
        /\ ~scan[t].cleaned /\ ~scan[u].cleaned
        /\ media # <<>> /\ folders # <<>>
        /\ ~scanning

----------------------------------------------------------------------------
(* Claims about rescans, checked under SpecLib                             *)

\* no two rows of the table have the same path, and every row is filed under
\* the ID derived from its path
OneRowPerPath(tbl) ==
    /\ \A i, j \in DOMAIN tbl : tbl[i].path = tbl[j].path => i = j
    /\ \A i \in DOMAIN tbl : tbl[i].id = i /\ i = generateID(tbl[i].path)

\* C11: once an error-free scan has completed, and as long as no file is
\* added, removed or rewritten, no step of a further ScanPath call changes
\* the set of folder IDs or the set of media IDs, and no path ever has two
\* records.
C11_RescanIdempotent ==
    [][ /\ synced /\ synced' =>
              /\ DOMAIN folders' = DOMAIN folders
              /\ DOMAIN media' = DOMAIN media
        /\ OneRowPerPath(folders') /\ OneRowPerPath(media') ]_vars

\* a second scan of the unchanged tree has returned; the store holds folder
\* and media rows
C11_Witness ==
    /\ scan[Rescanner].pc = "idle" /\ scan[Rescanner].ret = "nil"
    /\ scan[Rescanner].rescan /\ scan[Rescanner].whole /\ synced
    /\ folders # <<>> /\ media # <<>>

\* the enrichment fields of a media row
Enrichment(row) ==
    <<row.duration, row.width, row.height, row.video_codec, row.audio_codec>>

\* C12: at every step, a media record whose file is on disk before and after
\* the step is still there, with its enrichment fields (and its id, path and
\* folder) as they were: a scan changes at most title, size and modified_at.
C12_RescanKeepsEnrichment ==
    [][ \A id \in DOMAIN media :
           (media[id].path \in DOMAIN fs /\ media[id].path \in DOMAIN fs')
           => /\ id \in DOMAIN media'
              /\ Enrichment(media'[id]) = Enrichment(media[id])
              /\ media'[id] = [media[id] EXCEPT !.title = media'[id].title,
                                                !.size = media'[id].size,
                                                !.mtime = media'[id].mtime] ]_vars

\* a rescan has refreshed the size of an enriched record after its file was
\* rewritten
C12_Witness ==
    \E id \in DOMAIN media :
        /\ media[id].duration # Nil /\ media[id].video_codec # Nil
        /\ media[id].path \in DOMAIN fs
        /\ fs[media[id].path].size # 1
        /\ media[id].size = fs[media[id].path].size
        /\ scan[Rescanner].pc = "idle" /\ scan[Rescanner].ret = "nil"

\* the rows of tbl whose path exists on the filesystem f
Surviving(f, tbl) == {i \in DOMAIN tbl : tbl[i].path \in DOMAIN f}

\* C14: a CleanupDeletedFiles pass that meets no store error leaves in each
\* table exactly the rows that were there and whose path exists on disk,
\* each as it was.
C14_CleanupKeepsExactlyExisting ==
    [][ \A t \in Scanners :
           ( /\ scan[t].pc = "sc_cleanup"
             /\ scan'[t].pc = "sc_walk"
             /\ scan'[t].upTo = "all" )
           => ( /\ DOMAIN media' = Surviving(fs, media)
                /\ \A i \in DOMAIN media' : media'[i] = media[i]
                /\ DOMAIN folders' = Surviving(fs, folders)
                /\ \A i \in DOMAIN folders' : folders'[i] = folders[i] ) ]_vars

\* the first call's cleanup has just run on the rows of an earlier scan: it
\* deleted some media and folder rows and kept others
C14_Witness ==
    /\ scan[Rescanner].pc = "sc_walk" /\ scan[Rescanner].calls = 1
    /\ scan[Rescanner].upTo = "all"
    /\ media # <<>> /\ folders # <<>>
    /\ DOMAIN media # DOMAIN ScannedStore.media
    /\ DOMAIN folders # DOMAIN ScannedStore.folders

\* the directory that contains the entry at path, read off the tree
DirOf(path) ==
    LET i == CHOOSE k \in 1..Len(Tree) : Join(Tree[k].dir, Tree[k].name) = path
    IN  Tree[i].dir

\* C15: a folder row has no parent if its directory lies directly under the
\* root and otherwise the ID of its containing directory as parent; a media
\* row has folder_id "" if its file lies directly under the root and
\* otherwise the ID of its containing directory; after an error-free scan
\* the row of that containing directory is in the store.
C15_ParentLinkage ==
    /\ \A i \in DOMAIN folders :
          LET d == DirOf(folders[i].path) IN
          IF d = LibraryRoot THEN folders[i].parent_id = Nil
          ELSE /\ folders[i].parent_id = <<generateID(d)>>
               /\ synced => /\ generateID(d) \in DOMAIN folders
                            /\ folders[generateID(d)].path = d
    /\ \A i \in DOMAIN media :
          LET d == DirOf(media[i].path) IN
          IF d = LibraryRoot THEN media[i].folder_id = ""
          ELSE /\ media[i].folder_id = generateID(d)
               /\ media[i].folder_id # ""
               /\ synced => /\ generateID(d) \in DOMAIN folders
                            /\ folders[generateID(d)].path = d

\* a scan of an empty store has indexed a root-level file, a root-level
\* folder, a nested folder and a file in each
C15_Witness ==
    /\ synced /\ scan[Rescanner].pc = "idle" /\ scan[Rescanner].ret = "nil"
    /\ \A i \in DOMAIN media : media[i].duration = Nil
    /\ {media[i].path : i \in DOMAIN media} =
          {"/lib/t.MP4", "/lib/Movies/a.mkv", "/lib/Movies/Sub/b.mkv"}
    /\ {folders[i].path : i \in DOMAIN folders} = {"/lib/Movies", "/lib/Movies/Sub"}

\* C16: once an error-free scan has completed and until the next change on
\* disk, every folder row's item_count is the number of media rows whose
\* folder_id is that folder.
C16_ItemCountMatches ==
    synced =>
        \A i \in DOMAIN folders :
            folders[i].item_count =
                Cardinality({m \in DOMAIN media : media[m].folder_id = i})

----------------------------------------------------------------------------
(* Claims about what a scan indexes, checked under SpecWalk and SpecLib    *)

NameOf(path) ==
    LET i == CHOOSE k \in 1..Len(Tree) : Join(Tree[k].dir, Tree[k].name) = path
    IN  Tree[i].name

\* the directories strictly between the root and path
RECURSIVE DirsAbove(_)
DirsAbove(path) ==
    IF DirOf(path) = LibraryRoot THEN {}
    ELSE {DirOf(path)} \cup DirsAbove(DirOf(path))

DotPrefixed(path) == SubSeq(NameOf(path), 1, 1) = "."

\* path is the entry e or lies in e's subtree
Within(path, e) == path = e \/ e \in DirsAbove(path)

\* the entries of f a scan is to record
Indexable(f) ==
    {p \in DOMAIN f \ {LibraryRoot} :
        /\ \A d \in DirsAbove(p) : ~DotPrefixed(d)
        /\ IF f[p].isDir THEN ~DotPrefixed(p)
           ELSE ToLower(Ext(NameOf(p))) \in supportedVideoExtensions}

\* the store st holds the row a scan of f writes for path
Upserted(st, f, path) ==
    IF f[path].isDir
    THEN \E id \in DOMAIN st.folders :
            st.folders[id].path = path /\ st.folders[id].name = NameOf(path)
    ELSE \E id \in DOMAIN st.media :
            /\ st.media[id].path = path
            /\ st.media[id].size = f[path].size
            /\ st.media[id].mtime = f[path].mtime

\* C26: a stat failure or a store write failure for one directory entry
\* during a scan skips only that entry (for a folder, its subtree): every
\* other entry of the same directory and of the other directories is still
\* upserted, and ScanPath does not return an error because of it. (The only
\* error of the walk is a failed listing of the root, which writes nothing.)
C26_EntryFailureSkipsOnlyEntry ==
    [][\A t \in Scanners :
          (scan[t].pc = "sc_walk" /\ scan'[t].pc = "sc_exit") =>
              LET after == [folders |-> folders', media |-> media'] IN
              \/ /\ scan'[t].ret = "err"
                 /\ after = Store
              \/ /\ scan'[t].ret = "nil"
                 /\ \E e \in DOMAIN fs :
                       \A p \in Indexable(fs) :
                           ~Within(p, e) => Upserted(after, fs, p)]_vars

\* a scan into an empty store has returned nil without the folder Movies,
\* whose entry failed, and with the file next to it recorded
C26_Witness ==
    /\ scan[Rescanner].pc = "sc_exit" /\ scan[Rescanner].ret = "nil"
    /\ scan[Rescanner].calls = 1 /\ scan[Rescanner].upTo = "all"
    /\ Join(Join(LibraryRoot, "Movies"), "a.mkv") \in DOMAIN fs
    /\ Join(LibraryRoot, "t.MP4") \in DOMAIN fs
    /\ Upserted(Store, fs, Join(LibraryRoot, "t.MP4"))
    /\ ~Upserted(Store, fs, Join(LibraryRoot, "Movies"))
    /\ media # <<>> /\ folders = <<>>

\* C27: no scan creates a folder or media record for a path with a
\* dot-prefixed directory component below the root, and no media record for
\* a file whose extension is not a supported video extension.
C27_HiddenAndUnsupportedSkipped ==
    /\ \A i \in DOMAIN folders :
          /\ ~DotPrefixed(folders[i].path)
          /\ \A d \in DirsAbove(folders[i].path) : ~DotPrefixed(d)
    /\ \A i \in DOMAIN media :
          /\ \A d \in DirsAbove(media[i].path) : ~DotPrefixed(d)
          /\ ToLower(Ext(NameOf(media[i].path))) \in
                 {".mp4", ".m4v", ".mkv", ".avi", ".webm", ".mov", ".wmv", ".flv"}

\* a scan has walked a library that holds a hidden directory with a video
\* in it and a text file, and has recorded the video next to them
C27_Witness ==
    /\ scan[Rescanner].pc = "sc_exit" /\ scan[Rescanner].ret = "nil"
    /\ Join(Join(LibraryRoot, ".hid"), "h.mkv") \in DOMAIN fs
    /\ Join(LibraryRoot, "n.txt") \in DOMAIN fs
    /\ synced
    /\ \E i \in DOMAIN media : media[i].path = Join(LibraryRoot, "t.MP4")

----------------------------------------------------------------------------
(* Claims about enrichment and the background sweep, checked under         *)
(* SpecSweep / SpecSweepLive                                               *)

\* C13: whenever a ProcessMediaItem call, from the sweep or from a handler,
\* writes metadata to the store, the record's duration in the store was
\* still unpopulated: no record is written a second time.
C13_MetadataWrittenOnce ==
    [][ \A t \in Procs :
           (req[t].pc = "pm_meta" /\ req'[t].wrote)
           => (req[t].id \in DOMAIN media => media[req[t].id].duration = Nil)
      ]_vars

\* C19: if the store never fails and the cancellation signal never fires,
\* the background sweep eventually fetches an empty page and ends, whatever
\* tools are available and however extraction and generation turn out.
C19_SweepTerminates ==
    ~faults => <>(sweep.result = "completed" \/ ctxDone)

\* C20: the sweep starts at most one ProcessMediaItem call with the
\* cancellation signal already fired; once the signal has fired the sweep
\* ends; and once ended it starts nothing more, so what is left of its page
\* stays unprocessed.
C20_CancelStopsSweep ==
    /\ [](sweep.after <= 1)
    /\ (ctxDone ~> sweep.pc = "done")
    /\ [][sweep.pc = "done" => sweep' = sweep /\ req'[Sweeper] = req[Sweeper]]_vars

\* the sweep has ended on the signal after starting one more call, with an
\* item of its page left
C20_Witness ==
    /\ ctxDone /\ sweep.pc = "done" /\ sweep.result = "cancelled"
    /\ sweep.after = 1
    /\ sweep.items # <<>>
    /\ req[Sweeper].id # Head(sweep.items).id

\* C21: the delay between two items can be interrupted: when the
\* cancellation signal has fired while the sweep waits between items, the
\* sweep can end there, without the delay having elapsed; and once it has
\* observed the cancellation it starts no further item.
C21_DelayInterruptible ==
    /\ (sweep.pc = "sw_sleep" /\ ctxDone) =>
           ENABLED (SweepStep /\ sweep'.pc = "done")
    /\ sweep.result = "cancelled" => sweep.pc = "done"

\* C22: within one run of the background sweep, an item whose extraction or
\* generation failed, or was skipped because the tool is unavailable, is not
\* passed to ProcessMediaItem again.
C22_NoRetryWithinSweep ==
    [][(sweep.pc = "sw_call" /\ sweep'.pc = "sw_wait")
          => Head(sweep.items).id \notin sweep.unserved]_vars

\* C23: when extraction or generation has failed for an item of the page,
\* the sweep does not stop: unless the cancellation signal fires, it goes on
\* to call ProcessMediaItem for the next item of the page.
C23_FailureDoesNotStopSweep ==
    \A id \in ThumbIDs :
        (/\ sweep.pc = "sw_wait"
         /\ Unserved(req[Sweeper])
         /\ Len(sweep.items) >= 2
         /\ sweep.items[2].id = id)
        ~> (\/ ctxDone
            \/ /\ sweep.pc = "sw_wait"
               /\ req[Sweeper].op = "ProcessMediaItem"
               /\ req[Sweeper].id = id)

\* the sweep is in the call for the second item of a page after the call for
\* the first one failed or was skipped
C23_Witness ==
    /\ ~ctxDone
    /\ sweep.pc = "sw_wait" /\ Len(sweep.items) = 1
    /\ req[Sweeper].id = Head(sweep.items).id
    /\ req[Sweeper].pc = "gen_run"
    /\ sweep.unserved # {}
    /\ req[Sweeper].id \notin sweep.unserved

----------------------------------------------------------------------------
(* Claims about ProcessMediaItem's result, checked under SpecThumb         *)

\* C24: when thumbnail generation fails inside ProcessMediaItem (the
\* subprocess exits non-zero or leaves no output file), ProcessMediaItem
\* returns a non-nil error to its caller.
C24_GenerationFailureSurfaces ==
    \A t \in Procs :
        (req[t].op = "ProcessMediaItem" /\ req[t].pc = "idle" /\ req[t].failed)
            => req[t].ret \notin {"nil", "skip"}

----------------------------------------------------------------------------
(* Claims about Generate's seek offset, checked under SpecSeek             *)

Min(a, b) == IF a < b THEN a ELSE b

\* C25: for every known duration d > 0, in whole seconds, the seek offset
\* Generate computes never exceeds min(5, d/2) and lies strictly inside the
\* video (offset < d); d = 120 gives 5, d = 30 gives 3, d = 4 gives 2.
C25_SeekOffsetInsideVideo ==
    \A t \in Procs :
        (req[t].seek # Nil /\ req[t].dur # Nil /\ req[t].dur[1] > 0) =>
            LET d == req[t].dur[1]
                offset == req[t].seek[1]
            IN  /\ offset <= Min(5, d \div 2)
                /\ offset < d
                /\ d = 120 => offset = 5
                /\ d = 30 => offset = 3
                /\ d = 4 => offset = 2

----------------------------------------------------------------------------
(* Claims about Set, checked under SpecCache                               *)

\* the bytes held by the entries of a list
RECURSIVE SumLen(_)
SumLen(ord) == IF ord = <<>> THEN 0 ELSE Len(Head(ord).data) + SumLen(Tail(ord))

\* C28: Set(k, d) on a key already present, with len(d) <= maxSize, replaces
\* k's value with d, changes Size() by exactly len(d) minus the length of the
\* old value, makes k the most recently used entry and removes no entry:
\* Len() and every other key's value and relative order are unchanged.
C28_SetOnPresentKeyUpdates ==
    [][(/\ lastOp'.op = "Set"
        /\ lastOp'.key \in cache.items
        /\ lastOp'.len <= cache.maxSize) =>
          LET k == lastOp'.key
              d == lastOp'.data
              old == cache.order[ElemOf(cache, k)].data
          IN  /\ cache'.order[1] = [key |-> k, data |-> d]
              /\ LRUSize(cache') = LRUSize(cache) + Len(d) - Len(old)
              /\ LRULen(cache') = LRULen(cache)
              /\ Tail(cache'.order) = SeqWithout(cache.order, {k})
              /\ cache'.items = cache.items
              /\ cache'.mu = "free"]_vars

\* a Set has replaced the value of the least recently used of two entries by
\* a value of another length
C28_Witness ==
    /\ lastOp.op = "Set" /\ lastOp.had /\ lastOp.ok
    /\ LRULen(cache) >= 2
    /\ recency[Len(recency)].key = lastOp.key
    /\ cache.order[1].data = lastOp.data
    /\ LRUSize(cache) # SumLen(Tail(cache.order)) + 1

\* C29: Set(k, d) on an absent key with len(d) <= maxSize and capacity >= 1
\* evicts entries only from the least recently used end and only as many as
\* are needed to make Len() < capacity and Size() + len(d) <= maxSize, then
\* inserts k as the most recently used entry, so that Get(k) immediately
\* afterwards returns d.
C29_SetOnAbsentKeyEvictsTail ==
    [][(/\ lastOp'.op = "Set"
        /\ lastOp'.key \notin cache.items
        /\ lastOp'.len <= cache.maxSize
        /\ cache.capacity >= 1) =>
          LET k == lastOp'.key
              d == lastOp'.data
              n == LRULen(cache) - (LRULen(cache') - 1)
              Kept(m) == SubSeq(cache.order, 1, LRULen(cache) - m)
              Fits(m) == /\ Len(Kept(m)) < cache.capacity
                         /\ SumLen(Kept(m)) + Len(d) <= cache.maxSize
          IN  /\ n \in 0..LRULen(cache)
              /\ cache'.order = <<[key |-> k, data |-> d]>> \o Kept(n)
              /\ cache'.items = {cache'.order[i].key : i \in 1..LRULen(cache')}
              /\ LRUSize(cache') = SumLen(cache'.order)
              /\ Fits(n)
              /\ \A m \in 0..(n - 1) : ~Fits(m)
              /\ LRUGet(cache', k).ok
              /\ LRUGet(cache', k).data = d]_vars

\* a Set of an absent key has evicted one entry of two and kept the other
C29_Witness ==
    /\ lastOp.op = "Set" /\ ~lastOp.had /\ lastOp.ok
    /\ Cardinality(lastOp.evicted) = 1
    /\ LRULen(cache) = 2
    /\ cache.order[2].key = recency[1].key
    /\ cache.order[1] = [key |-> lastOp.key, data |-> lastOp.data]

\* C30: every Set call terminates and releases the cache lock, for every
\* configured capacity and maxSize, capacity 0 on an empty cache included.
C30_SetTerminates == lastOp.op = "Set" => cache.mu = "free"

\* C31: in every reachable state of the cache, after any sequence of Get,
\* Set, Delete and Clear, Size() is the sum of the lengths of the values
\* held; it is 0 after Clear and a Delete of an absent key changes nothing.
C31_SizeIsSumOfLengths ==
    /\ [](LRUSize(cache) = SumLen(cache.order))
    /\ [](cache.items = {cache.order[i].key : i \in 1..LRULen(cache)})
    /\ [][/\ lastOp'.op = "Clear" => LRUSize(cache') = 0
          /\ (lastOp'.op = "Delete" /\ ~lastOp'.had) => cache' = cache]_vars

\* a Delete has removed one of several entries and left bytes behind
C31_Witness ==
    /\ lastOp.op = "Delete" /\ lastOp.had
    /\ LRULen(cache) >= 1
    /\ LRUSize(cache) >= 2

----------------------------------------------------------------------------
(* Claims about the order of the steps of one call                         *)

\* C32: within one ScanPath call on a valid root the cleanup pass finishes
\* before the walk upserts any folder or media record, and an error of the
\* cleanup pass neither keeps the walk from running nor becomes ScanPath's
\* result: the result is the walk's.
C32_CleanupThenWalk ==
    [][\A t \in Scanners :
          \* the cleanup pass adds and changes no row, and whatever it
          \* returned the call goes on to the walk with no result set
          /\ (scan[t].pc = "sc_cleanup" /\ scan'[t].pc # "sc_cleanup") =>
                /\ scan'[t].pc = "sc_walk" /\ scan'[t].ret = "none"
                /\ DOMAIN folders' \subseteq DOMAIN folders
                /\ DOMAIN media' \subseteq DOMAIN media
                /\ \A i \in DOMAIN folders' : folders'[i] = folders[i]
                /\ \A i \in DOMAIN media' : media'[i] = media[i]
          \* the walk runs after the cleanup pass of the same call
          /\ (scan[t].pc = "sc_walk" /\ scan'[t].pc # "sc_walk") =>
                scan[t].cleaned
          \* a call that has come to the cleanup pass returns from the walk
          /\ (scan[t].cleaned /\ scan[t].pc # "sc_exit"
                 /\ scan'[t].pc = "sc_exit") => scan[t].pc = "sc_walk"
      ]_vars

\* a call whose cleanup pass failed at its first listing has walked the
\* library into the empty store and is returning nil
C32_Witness ==
    /\ scan[Rescanner].pc = "sc_exit" /\ scan[Rescanner].ret = "nil"
    /\ scan[Rescanner].calls = 1
    /\ scan[Rescanner].cleaned /\ scan[Rescanner].upTo = "none"
    /\ media # <<>> /\ folders # <<>>

\* the ProcessMediaItem call of goroutine t, in progress or returned
InProcessMediaItem(t) == req[t].op = "ProcessMediaItem"

\* C33: within one ProcessMediaItem call, when the passed record lacks a
\* duration and the extractor is available, extraction completes before the
\* generator is invoked and the generator receives the extracted duration
\* as its hint; when the passed record already has a duration the extractor
\* is not invoked and no metadata is written.
C33_ExtractThenGenerate ==
    [][\A t \in Procs : (InProcessMediaItem(t) /\ req'[t] # req[t]
                           /\ req'[t].op = req[t].op /\ req[t].pc # "idle") =>
          \* the metadata stage
          /\ req[t].pc = "pm_meta" =>
                IF req[t].dur = Nil /\ tools.ffprobe
                THEN req'[t].trail = <<"extract">>
                ELSE /\ req'[t].trail = <<>> /\ ~req'[t].wrote
                     /\ media' = media /\ req'[t].dur = req[t].dur
          \* the generator is entered after the metadata stage, with the
          \* duration Extract returned in this call, if it returned one
          /\ (req[t].pc = "gen_stat") =>
                /\ req[t].trail \in {<<>>, <<"extract">>}
                /\ req[t].dur = Nil /\ tools.ffprobe =>
                      /\ req[t].trail = <<"extract">> /\ req[t].probed = Nil
                /\ req[t].probed # Nil => req'[t].hint = req[t].probed
                /\ req[t].trail = <<>> =>
                      req'[t].hint = <<DurationHint(req[t].dur)>>
      ]_vars

\* a call passed a record without duration has extracted it and handed it
\* to the generator, which is running ffmpeg
C33_Witness ==
    \E t \in Handlers :
        /\ InProcessMediaItem(t) /\ req[t].pc = "gen_run"
        /\ req[t].trail = <<"extract", "gen">>
        /\ req[t].probed # Nil /\ req[t].hint = req[t].probed
        /\ req[t].hint[1] > 0

\* C34: when the extractor or the generator, or both, are unavailable,
\* ProcessMediaItem never invokes the unavailable tool, writes no metadata
\* for the skipped extraction, returns without error and still removes the
\* ID from the in-flight set.
C34_UnavailableToolSkipped ==
    \A t \in Procs : InProcessMediaItem(t) =>
        /\ ~tools.ffprobe =>
              /\ \A k \in 1..Len(req[t].trail) : req[t].trail[k] # "extract"
              /\ req[t].probed = Nil /\ ~req[t].wrote
        /\ ~tools.ffmpeg =>
              /\ \A k \in 1..Len(req[t].trail) : req[t].trail[k] # "gen"
              /\ ~req[t].invoked /\ req[t].hint = Nil
              /\ req[t].pc \notin {"gen_stat", "gen_run"}
        /\ ((~tools.ffprobe \/ ~tools.ffmpeg) /\ req[t].pc = "idle") =>
              /\ req[t].ret \in {"nil", "skip"}
              /\ req[t].id \in processing =>
                    \E u \in Procs \ {t} : Registered(u, req[t].id)

\* with neither tool installed a call has registered the ID, skipped both
\* stages and returned nil; the record is as it was and the set is empty
C34_Witness ==
    \E t \in Handlers :
        /\ ~tools.ffprobe /\ ~tools.ffmpeg
        /\ InProcessMediaItem(t) /\ req[t].pc = "idle" /\ req[t].ret = "nil"
        /\ req[t].trail = <<>>
        /\ processing = {}
        /\ media[req[t].id].duration = Nil
        /\ req[t].id \notin thumbs

----------------------------------------------------------------------------
(* Claims about the sweep's coverage, checked under SpecBacklogLive        *)

\* C35: without cancellation and store errors, every media record that
\* lacks metadata when the sweep starts is eventually passed to
\* ProcessMediaItem by the sweep, also when the backlog is larger than the
\* page and some items can never be enriched.
C35_SweepReachesEveryItem ==
    \A id \in ThumbIDs :
        (id \in DOMAIN media /\ media[id].duration = Nil)
            => <>(/\ req[Sweeper].op = "ProcessMediaItem"
                  /\ req[Sweeper].id = id)

----------------------------------------------------------------------------
(* Claims about Generate, checked under SpecThumb                          *)

\* C36: Generate is idempotent per media ID: called when the output file
\* for the ID exists, it returns successfully without starting the
\* subprocess and without touching the file; the subprocess is started only
\* by a call that found no file, so calls made after one success start it
\* no more.
C36_GenerateIdempotent ==
    [][\A t \in Procs :
          (req[t].pc = "gen_stat" /\ req'[t] # req[t]) =>
              IF req[t].id \in thumbs
              THEN /\ req'[t].pc = IF req[t].op = "GetThumbnail"
                                   THEN "gt_read" ELSE "pm_exit"
                   /\ req'[t].seek = Nil /\ ~req'[t].failed
                   /\ thumbs' = thumbs
              ELSE req'[t].pc = "gen_run"]_vars

\* a call has entered Generate after another call's ffmpeg had written the
\* file, and has come back without running ffmpeg
C36_Witness ==
    \E t \in Handlers :
        /\ req[t].invoked /\ req[t].seek = Nil /\ ~req[t].failed
        /\ req[t].pc \in {"gt_read", "pm_exit"}
        /\ req[t].id \in thumbs
        /\ \E u \in Handlers \ {t} :
              req[u].id = req[t].id /\ req[u].seek # Nil /\ ~req[u].failed

\* C37: GetThumbnail returns thumbnail bytes, and HasThumbnail returns true,
\* only for a media ID that has a media record at the time of the return
C37_ServedOnlyWithRecord ==
    [][\A t \in Procs :
          (/\ req'[t] # req[t]
           /\ req'[t].pc = "idle"
           /\ req'[t].op \in {"GetThumbnail", "HasThumbnail"}
           /\ req'[t].ret \in {"data", "true"})
          => req'[t].id \in DOMAIN media']_vars

\* C38: whenever the startup task invokes StartBackgroundProcessing, no scan
\* is in progress and the records of a completed scan are in the store
C38_SweepStartsAfterScan ==
    [][(sweep.pc = "off" /\ sweep'.pc # "off")
       => /\ ~scanning
          /\ \A t \in Scanners : ~InScan(scan, t)
          /\ synced
          /\ DOMAIN media = DOMAIN ScannedStore.media]_vars

\* C39: the thumbnail handler answers 200 only with thumbnail bytes to send;
\* for a media ID with no record and no thumbnail it answers 404
C39_OkOnlyWithBytes ==
    \A t \in Procs :
        /\ req[t].status = 200 => req[t].image # <<>>
        /\ (req[t].op = "GetThumbnail" /\ req[t].pc = "idle"
               /\ req[t].ret = "nil")
           => req[t].status = 404

\* C40: whenever no ScanPath call is between the guard and its return,
\* IsScanning() is false: every return of a call that set the flag clears
\* it, whatever the exit path, and a call that arrives when no other call is
\* there gets past the guard
C40_FlagClearedOnEveryExit ==
    /\ []((\A t \in Scanners : ~InScan(scan, t)) => ~scanning)
    /\ [][\A t \in Scanners :
            /\ (InScan(scan, t) /\ scan'[t].pc = "idle") => ~scanning'
            /\ ( /\ scan[t].pc = "sc_enter"
                 /\ scan'[t] # scan[t]
                 /\ \A u \in Scanners : ~InScan(scan, u) )
               => (InScan(scan', t) /\ ~scan'[t].noop)]_vars

\* two calls that both got past the guard have returned, one with an error
\* and one on the empty path, and the flag is clear
C40_Witness ==
    \E t, u \in Scanners :
        /\ t # u
        /\ Returned(t) /\ scan[t].ret = "err"
        /\ Returned(u) /\ scan[u].path = "" /\ scan[u].ret = "nil"
        /\ ~scanning

====
